---- MODULE Spec2Model ----
(***************************************************************************)
(* RustUX: spatial-hash collision system (src/src/collision/mod.rs),       *)
(* fixed-timestep physics world (src/src/physics/mod.rs), game objects     *)
(* (src/src/object/mod.rs), the player (src/src/supertux/mod.rs), the      *)
(* badguys (src/src/badguy/mod.rs), and the frame loop of the engine       *)
(* (src/src/engine/mod.rs) with its input manager (src/src/control).       *)
(*                                                                         *)
(* Number representation.                                                  *)
(*  - Lengths, velocities and accelerations are f32 in the source.  Here   *)
(*    they are fixed-point integers with resolution 1/Scale (Fx(64) is     *)
(*    64.0), so that multiplying by dt = 1/60 is a division by Scale.      *)
(*    Products that fall between two fixed-point values are rounded to     *)
(*    the nearest one, where the source rounds to the nearest f32.         *)
(*  - The accumulator of PhysicsWorld::update is modelled bit-exactly: a   *)
(*    time is an integer count of 2^-30 s, and every f32 addition and      *)
(*    subtraction rounds to 24 significant bits, ties to even (RoundF32).  *)
(*  - The timers of the player and of the badguys are modelled bit-exactly *)
(*    in the same way, in units of 2^-27 s (Sec is 1.0 s).                 *)
(***************************************************************************)
EXTENDS Integers, Sequences, FiniteSets, TLC

VARIABLES
    objects,        \* SpatialGrid.objects : id -> CollisionObject
    cells,          \* SpatialGrid.cells   : (cx, cy) -> Vec<id>
    cs_next_id,     \* CollisionSystem.next_id
    layer_matrix,   \* CollisionSystem.layer_matrix
    bodies,         \* PhysicsWorld.bodies : id -> PhysicsBody
    next_id,        \* PhysicsWorld.next_id
    accumulator,    \* PhysicsWorld.accumulator, in units of 2^-30 s
    paused,         \* PhysicsWorld.paused
    removed,        \* history: ids removed from the collision system
    added,          \* history: id -> the body as add_body stored it
    steps,          \* history: number of step() calls so far
    fed,            \* history: exact sum of the dt given to unpaused updates
    ops,            \* history: number of mutator calls so far
    last,           \* history: what the most recent operation did
    object_manager, \* GameObjectManager: [objects : id -> GameObject, next_id]
    badguy_system,  \* BadguySystem: [player_id], <<>> for None and <<id>> for Some(id)
    engine          \* Engine: [running, input_manager, pc], pc the position in run()

vars == <<objects, cells, cs_next_id, layer_matrix, bodies, next_id,
          accumulator, paused, removed, added, steps, fed, ops, last,
          object_manager, badguy_system, engine>>

----------------------------------------------------------------------------
(* Bounds of the model *)

MaxObjects == 2     \* ids handed out by a stand-alone collision system
MaxBodies == 2      \* ids handed out by the physics world
MaxOps == 2         \* set_body_position / set_body_velocity / apply_* calls
MaxSteps == 2       \* step() calls in one behaviour
MaxClockSteps == 5  \* fixed steps per behaviour of the clock specification
MaxIds == 3         \* add_object calls per behaviour of the id specification
MaxDirect == 1      \* objects registered through collision_system_mut()

----------------------------------------------------------------------------
(* Fixed-point numbers *)

Scale == 60

Fx(n) == n * Scale

Abs(n) == IF n < 0 THEN -n ELSE n

Min(a, b) == IF a < b THEN a ELSE b

Max(a, b) == IF a > b THEN a ELSE b

\* a / b rounded to the nearest integer (b > 0), halves upwards
RoundDiv(a, b) == (2 * a + b) \div (2 * b)

Vec(x, y) == [x |-> x, y |-> y]

ZERO == Vec(0, 0)

----------------------------------------------------------------------------
(* math::Rect *)

Rect(x, y, w, h) == [x |-> x, y |-> y, width |-> w, height |-> h]

left(r) == r.x

right(r) == r.x + r.width

top(r) == r.y

bottom(r) == r.y + r.height

\* twice the centre, so that width / 2.0 stays integral
center2(r) == Vec(2 * r.x + r.width, 2 * r.y + r.height)

intersects(a, b) ==
    /\ left(a) < right(b)
    /\ right(a) > left(b)
    /\ top(a) < bottom(b)
    /\ bottom(a) > top(b)

\* mutant: the right and bottom edges are those of the first rectangle
intersection_to_own_edges(a, b) ==
    IF ~intersects(a, b) THEN {}
    ELSE LET l == Max(left(a), left(b))
             t == Max(top(a), top(b))
         IN {Rect(l, t, right(a) - l, bottom(a) - t)}

\* Option<Rect>: the empty set is None, a singleton is Some
intersection(a, b) ==
    IF ~intersects(a, b) THEN {}
    ELSE LET l == Max(left(a), left(b))
             r == Min(right(a), right(b))
             t == Max(top(a), top(b))
             bt == Min(bottom(a), bottom(b))
         IN {Rect(l, t, r - l, bt - t)}

----------------------------------------------------------------------------
(* collision::SpatialGrid.  A grid g is [cells |-> .., objects |-> ..]. *)

CELL_SIZE == Fx(64)

CollisionObject(id, rect, layer, collision_type) ==
    [id |-> id, rect |-> rect, layer |-> layer,
     collision_type |-> collision_type, active |-> TRUE]

object_intersects(o, r) == o.active /\ intersects(o.rect, r)

\* the cells min_x..=max_x times min_y..=max_y, x-major, as the nested loops
\* push them
get_cells_for_rect(r) ==
    LET min_x == left(r) \div CELL_SIZE
        max_x == right(r) \div CELL_SIZE
        min_y == top(r) \div CELL_SIZE
        max_y == bottom(r) \div CELL_SIZE
        nx == IF max_x >= min_x THEN max_x - min_x + 1 ELSE 0
        ny == IF max_y >= min_y THEN max_y - min_y + 1 ELSE 0
    IN [i \in 1..(nx * ny) |->
            <<min_x + ((i - 1) \div ny), min_y + ((i - 1) % ny)>>]

Range(s) == {s[i] : i \in DOMAIN s}

grid_add_object(g, object) ==
    LET cs == Range(get_cells_for_rect(object.rect))
        bucket(c) == IF c \in DOMAIN g.cells THEN g.cells[c] ELSE <<>>
    IN [cells |-> [c \in (DOMAIN g.cells) \cup cs |->
                      IF c \in cs THEN Append(bucket(c), object.id)
                      ELSE g.cells[c]],
        objects |-> [i \in (DOMAIN g.objects) \cup {object.id} |->
                      IF i = object.id THEN object ELSE g.objects[i]]]

retain(s, id) == SelectSeq(s, LAMBDA e : e # id)

\* mutant: the record is deleted, the buckets keep the id
grid_remove_object_keep_buckets(g, id) ==
    IF id \in DOMAIN g.objects
    THEN [cells |-> g.cells,
          objects |-> [i \in (DOMAIN g.objects) \ {id} |-> g.objects[i]]]
    ELSE g

grid_remove_object(g, id) ==
    IF id \in DOMAIN g.objects
    THEN LET cs == Range(get_cells_for_rect(g.objects[id].rect))
             stripped == [c \in DOMAIN g.cells |->
                            IF c \in cs THEN retain(g.cells[c], id)
                            ELSE g.cells[c]]
             kept == {c \in DOMAIN g.cells : ~(c \in cs /\ stripped[c] = <<>>)}
         IN [cells |-> [c \in kept |-> stripped[c]],
             objects |-> [i \in (DOMAIN g.objects) \ {id} |-> g.objects[i]]]
    ELSE g

\* mutant: the stored rect is patched in place, the buckets are not rebuilt
grid_update_object_in_place(g, id, new_rect) ==
    IF id \in DOMAIN g.objects
    THEN [cells |-> g.cells,
          objects |-> [g.objects EXCEPT ![id].rect = new_rect]]
    ELSE g

grid_update_object(g, id, new_rect) ==
    IF id \in DOMAIN g.objects
    THEN grid_add_object(grid_remove_object(g, id),
                         [g.objects[id] EXCEPT !.rect = new_rect])
    ELSE g

grid_clear(g) == [cells |-> <<>>, objects |-> <<>>]

RECURSIVE Candidates(_, _, _)
\* the ids of the buckets of cs[i..], bucket by bucket
Candidates(g, cs, i) ==
    IF i > Len(cs) THEN <<>>
    ELSE (IF cs[i] \in DOMAIN g.cells THEN g.cells[cs[i]] ELSE <<>>)
         \o Candidates(g, cs, i + 1)

RECURSIVE Filtered(_, _, _, _, _)
\* the loop body of query_rect over the candidate ids ids[i..]
Filtered(g, rect, ids, i, seen) ==
    IF i > Len(ids) THEN <<>>
    ELSE IF ids[i] \in seen THEN Filtered(g, rect, ids, i + 1, seen)
    ELSE (IF ids[i] \in DOMAIN g.objects
             /\ object_intersects(g.objects[ids[i]], rect)
          THEN <<g.objects[ids[i]]>> ELSE <<>>)
         \o Filtered(g, rect, ids, i + 1, seen \cup {ids[i]})

\* mutant: no seen-set, every bucket entry is a candidate of its own
query_rect_no_seen(g, rect) ==
    LET ids == Candidates(g, get_cells_for_rect(rect), 1)
        hit(i) == ids[i] \in DOMAIN g.objects
                  /\ object_intersects(g.objects[ids[i]], rect)
        pick == SelectSeq([i \in DOMAIN ids |-> i], hit)
    IN [k \in DOMAIN pick |-> g.objects[ids[pick[k]]]]

query_rect(g, rect) ==
    Filtered(g, rect, Candidates(g, get_cells_for_rect(rect), 1), 1, {})

----------------------------------------------------------------------------
(* collision::CollisionSystem.  A collision system c is                    *)
(* [cells |-> .., objects |-> .., next_id |-> ..]; its layer matrix is the *)
(* variable layer_matrix.                                                  *)

Layers == {"World", "Player", "Enemy", "Item", "Trigger", "Projectile"}

CollisionTypes == {"Solid", "Platform", "Trigger", "Sensor"}

\* mutant: only the pair as given is stored
set_layer_interaction_one_way(m, layer1, layer2, interact) ==
    [k \in (DOMAIN m) \cup {<<layer1, layer2>>} |->
        IF k = <<layer1, layer2>> THEN interact ELSE m[k]]

set_layer_interaction(m, layer1, layer2, interact) ==
    LET ks == {<<layer1, layer2>>, <<layer2, layer1>>}
    IN [k \in (DOMAIN m) \cup ks |-> IF k \in ks THEN interact ELSE m[k]]

DefaultInteractions ==
    << <<"World", "Player", TRUE>>, <<"World", "Enemy", TRUE>>,
       <<"World", "Item", FALSE>>, <<"World", "Trigger", FALSE>>,
       <<"World", "Projectile", TRUE>>,
       <<"Player", "Enemy", TRUE>>, <<"Player", "Item", TRUE>>,
       <<"Player", "Trigger", TRUE>>, <<"Player", "Projectile", TRUE>>,
       <<"Enemy", "Item", FALSE>>, <<"Enemy", "Trigger", TRUE>>,
       <<"Enemy", "Projectile", TRUE>>,
       <<"Item", "Item", FALSE>>, <<"Item", "Trigger", FALSE>>,
       <<"Item", "Projectile", FALSE>>,
       <<"Trigger", "Trigger", FALSE>>, <<"Trigger", "Projectile", TRUE>>,
       <<"Projectile", "Projectile", FALSE>> >>

RECURSIVE ApplyInteractions(_, _, _)
ApplyInteractions(m, calls, i) ==
    IF i > Len(calls) THEN m
    ELSE ApplyInteractions(
             set_layer_interaction(m, calls[i][1], calls[i][2], calls[i][3]),
             calls, i + 1)

setup_default_layer_interactions == ApplyInteractions(<<>>, DefaultInteractions, 1)

\* mutant: a pair the matrix does not hold interacts
layers_interact_default_true(layer1, layer2) ==
    IF <<layer1, layer2>> \in DOMAIN layer_matrix
    THEN layer_matrix[<<layer1, layer2>>]
    ELSE TRUE

layers_interact(layer1, layer2) ==
    IF <<layer1, layer2>> \in DOMAIN layer_matrix
    THEN layer_matrix[<<layer1, layer2>>]
    ELSE FALSE

cs_new == [cells |-> <<>>, objects |-> <<>>, next_id |-> 1]

cs_add_object(c, rect, layer, collision_type) ==
    LET g == grid_add_object(c, CollisionObject(c.next_id, rect, layer, collision_type))
    IN [cells |-> g.cells, objects |-> g.objects, next_id |-> c.next_id + 1]

cs_remove_object(c, id) ==
    LET g == grid_remove_object(c, id)
    IN [cells |-> g.cells, objects |-> g.objects, next_id |-> c.next_id]

cs_update_object(c, id, new_rect) ==
    LET g == grid_update_object(c, id, new_rect)
    IN [cells |-> g.cells, objects |-> g.objects, next_id |-> c.next_id]

\* mutant: clear restarts the id counter
cs_clear_restarting_ids(c) == [cells |-> <<>>, objects |-> <<>>, next_id |-> 1]

cs_clear(c) ==
    LET g == grid_clear(c)
    IN [cells |-> g.cells, objects |-> g.objects, next_id |-> c.next_id]

\* mutant: equal |dx| and |dy| count as horizontal
get_collision_direction_tie_horizontal(moving_rect, static_rect) ==
    LET dx == center2(moving_rect).x - center2(static_rect).x
        dy == center2(moving_rect).y - center2(static_rect).y
    IN IF Abs(dx) >= Abs(dy)
       THEN (IF dx > 0 THEN "Right" ELSE "Left")
       ELSE (IF dy > 0 THEN "Down" ELSE "Up")

get_collision_direction(moving_rect, static_rect) ==
    LET dx == center2(moving_rect).x - center2(static_rect).x
        dy == center2(moving_rect).y - center2(static_rect).y
    IN IF Abs(dx) > Abs(dy)
       THEN (IF dx > 0 THEN "Right" ELSE "Left")
       ELSE (IF dy > 0 THEN "Down" ELSE "Up")

CollisionResult(object, rect) ==
    LET direction == get_collision_direction(rect, object.rect)
        inter == CHOOSE r \in intersection(object.rect, rect) : TRUE
    IN [object |-> object,
        direction |-> direction,
        penetration |-> IF direction \in {"Left", "Right"}
                        THEN inter.width ELSE inter.height]

RECURSIVE Results(_, _, _, _)
\* the loop of check_collisions over candidates[i..]
Results(candidates, rect, layer, i) ==
    IF i > Len(candidates) THEN <<>>
    ELSE (IF layers_interact(layer, candidates[i].layer)
             /\ object_intersects(candidates[i], rect)
          THEN <<CollisionResult(candidates[i], rect)>> ELSE <<>>)
         \o Results(candidates, rect, layer, i + 1)

check_collisions(c, rect, layer) == Results(query_rect(c, rect), rect, layer, 1)

resolve_collision(rect, collision) ==
    CASE collision.direction = "Left" ->
            [rect EXCEPT !.x = right(collision.object.rect)]
      [] collision.direction = "Right" ->
            [rect EXCEPT !.x = left(collision.object.rect) - rect.width]
      [] collision.direction = "Up" ->
            [rect EXCEPT !.y = bottom(collision.object.rect)]
      [] collision.direction = "Down" ->
            [rect EXCEPT !.y = top(collision.object.rect) - rect.height]

----------------------------------------------------------------------------
(* control: InputState and InputManager, keyboard part; engine: Engine *)

InputState_new ==
    [pressed_keys |-> {}, just_pressed_keys |-> {}, just_released_keys |-> {}]

clear_frame_data(state) ==
    [state EXCEPT !.just_pressed_keys = {}, !.just_released_keys = {}]

\* an event is [type, keycode, repeat]; Quit and the events of other devices
\* touch no key set
process_event(state, event) ==
    CASE event.type = "KeyDown" /\ ~event.repeat ->
            [state EXCEPT !.pressed_keys = @ \cup {event.keycode},
                          !.just_pressed_keys = @ \cup {event.keycode}]
      [] event.type = "KeyUp" ->
            [state EXCEPT !.pressed_keys = @ \ {event.keycode},
                          !.just_released_keys = @ \cup {event.keycode}]
      [] OTHER -> state

\* InputManager::update
input_manager_update(state) == clear_frame_data(state)

\* InputConfig::default: the keys bound to the actions of the player
\* (InputBinding::key keeps Keycode::name(), which Keycode::from_name reads
\* back when the binding is queried)
bindings ==
    [action \in {"MoveLeft", "MoveRight", "Jump", "Duck", "Run"} |->
        CASE action = "MoveLeft" -> {"Left", "A"}
          [] action = "MoveRight" -> {"Right", "D"}
          [] action = "Jump" -> {"Space", "Up", "W"}
          [] action = "Duck" -> {"Down", "S"}
          [] action = "Run" -> {"LShift", "RShift"}]

is_action_pressed(state, action) ==
    action \in DOMAIN bindings /\ \E key \in bindings[action] : key \in state.pressed_keys

is_action_just_pressed(state, action) ==
    /\ action \in DOMAIN bindings
    /\ \E key \in bindings[action] : key \in state.just_pressed_keys

\* Engine::new, the fields the frame loop works on; pc is the position in
\* run(): "new" before the call, then "handle_events", "update", "render"
\* in turn, "stopped" after the loop
Engine_new == [running |-> FALSE, input_manager |-> InputState_new, pc |-> "new"]

----------------------------------------------------------------------------
(* A stand-alone CollisionSystem driven through its public operations *)

GridRects ==
    {Rect(Fx(0), Fx(0), Fx(32), Fx(32)),        \* inside cell (0,0)
     Rect(Fx(48), Fx(16), Fx(32), Fx(32)),      \* cells (0,0) and (1,0)
     Rect(Fx(-16), Fx(-16), Fx(32), Fx(32)),    \* four cells around the origin
     Rect(Fx(32), Fx(0), Fx(32), Fx(32)),       \* right edge on a cell border
     Rect(Fx(64), Fx(40), 0, 0),                \* a point on a cell border
     Rect(Fx(100), Fx(100), Fx(10), Fx(10))}    \* inside cell (1,1)

QueryRects ==
    {Rect(Fx(0), Fx(0), Fx(32), Fx(32)),
     Rect(Fx(60), Fx(20), Fx(8), Fx(8)),
     Rect(Fx(64), Fx(40), 0, 0),
     Rect(Fx(-40), Fx(-40), Fx(200), Fx(200))}

GridLayers == {"World", "Player"}

NoTrace == <<>>

Last(op) == [op |-> op, id |-> 0, a |-> 0, dt |-> 0, n |-> 0,
             result |-> <<>>, trace |-> NoTrace]

Ids(objs) == [i \in DOMAIN objs |-> objs[i].id]

CS == [cells |-> cells, objects |-> objects, next_id |-> cs_next_id]

SetCS(c) ==
    /\ cells' = c.cells
    /\ objects' = c.objects
    /\ cs_next_id' = c.next_id

WorldUnchanged == UNCHANGED <<bodies, next_id, accumulator, paused, added, steps, fed, ops>>

GridInit ==
    /\ objects = <<>>
    /\ cells = <<>>
    /\ cs_next_id = 1
    /\ layer_matrix = setup_default_layer_interactions
    /\ bodies = <<>>
    /\ next_id = 1
    /\ accumulator = 0
    /\ paused = FALSE
    /\ removed = {}
    /\ added = <<>>
    /\ steps = 0
    /\ fed = 0
    /\ ops = 0
    /\ last = Last("new")
    /\ object_manager = [objects |-> <<>>, next_id |-> 1]
    /\ badguy_system = [player_id |-> <<>>]
    /\ engine = Engine_new

GridAddObject ==
    \E rect \in GridRects, layer \in GridLayers :
        /\ cs_next_id <= MaxObjects
        /\ SetCS(cs_add_object(CS, rect, layer, "Solid"))
        /\ last' = [Last("add_object") EXCEPT !.id = cs_next_id]
        /\ UNCHANGED <<engine, badguy_system, object_manager, layer_matrix, removed>>
        /\ WorldUnchanged

GridRemoveObject ==
    \E id \in 1..MaxObjects :
        /\ SetCS(cs_remove_object(CS, id))
        /\ removed' = IF id \in DOMAIN objects THEN removed \cup {id} ELSE removed
        /\ last' = [Last("remove_object") EXCEPT !.id = id]
        /\ UNCHANGED <<engine, badguy_system, object_manager, layer_matrix>>
        /\ WorldUnchanged

GridUpdateObject ==
    \E id \in 1..MaxObjects, rect \in GridRects :
        /\ SetCS(cs_update_object(CS, id, rect))
        /\ last' = [Last("update_object") EXCEPT !.id = id]
        /\ UNCHANGED <<engine, badguy_system, object_manager, layer_matrix, removed>>
        /\ WorldUnchanged

GridClear ==
    /\ SetCS(cs_clear(CS))
    /\ last' = Last("clear")
    /\ UNCHANGED <<engine, badguy_system, object_manager, layer_matrix, removed>>
    /\ WorldUnchanged

GridQuery ==
    \E rect \in QueryRects :
        /\ last' = [Last("query_rect") EXCEPT
                       !.result = Ids(query_rect(CS, rect)), !.a = rect]
        /\ UNCHANGED <<engine, badguy_system, object_manager, objects, cells, cs_next_id, layer_matrix, removed>>
        /\ WorldUnchanged

GridNext ==
    \/ GridAddObject
    \/ GridRemoveObject
    \/ GridUpdateObject
    \/ GridClear
    \/ GridQuery

GridSpec == GridInit /\ [][GridNext]_vars

----------------------------------------------------------------------------
(* Properties of the stand-alone collision system *)

NoDuplicates(s) == \A i, j \in DOMAIN s : s[i] = s[j] => i = j

CellsOf(r) == Range(get_cells_for_rect(r))

AllCells == (DOMAIN cells) \cup UNION {CellsOf(objects[i].rect) : i \in DOMAIN objects}

\* C2: the cell index is exactly the one derived from the stored objects: an
\* id is listed in the bucket of cell c if and only if an object with that id
\* is stored and c lies in the cell range of its rect; no bucket lists an id
\* twice, and no bucket is empty.
C2_IndexInSync ==
    /\ \A c \in AllCells : \A id \in 1..MaxObjects + 1 :
          (c \in DOMAIN cells /\ id \in Range(cells[c]))
              <=> (id \in DOMAIN objects
                   /\ objects[id].id = id
                   /\ c \in CellsOf(objects[id].rect))
    /\ \A c \in DOMAIN cells : NoDuplicates(cells[c]) /\ cells[c] # <<>>

\* a multi-cell object has been re-indexed by update_object or removed
C2_Witness ==
    /\ last.op \in {"update_object", "remove_object"}
    /\ Cardinality(DOMAIN objects) >= 2
    /\ \E i \in DOMAIN objects : Cardinality(CellsOf(objects[i].rect)) = 4
    /\ \E c \in DOMAIN cells : Len(cells[c]) >= 2

\* the stored objects a scan over all of them finds intersecting rect
Scan(rect) == {i \in DOMAIN objects : object_intersects(objects[i], rect)}

\* C3: query_rect returns exactly the stored objects whose rect intersects
\* the query rect, each of them once.
C3_QueryExact ==
    \A q \in QueryRects :
        LET res == Ids(query_rect(CS, q))
        IN /\ Range(res) = Scan(q)
           /\ NoDuplicates(res)

\* a query has returned an object that spans several cells of the query
C3_Witness ==
    /\ last.op = "query_rect"
    /\ \E k \in DOMAIN last.result :
          /\ last.result[k] \in DOMAIN objects
          /\ Cardinality(CellsOf(objects[last.result[k]].rect)
                         \cap CellsOf(last.a)) >= 2
    /\ Cardinality(DOMAIN objects) >= 2
    /\ Len(last.result) < Cardinality(DOMAIN objects)

\* C10: once remove_object has removed an id, no query_rect and no
\* check_collisions returns it and no bucket lists it.
C10_RemovedStaysGone ==
    \A id \in removed :
        /\ \A c \in DOMAIN cells : id \notin Range(cells[c])
        /\ \A q \in QueryRects :
              /\ id \notin Range(Ids(query_rect(CS, q)))
              /\ \A l \in GridLayers :
                    \A k \in DOMAIN check_collisions(CS, q, l) :
                        check_collisions(CS, q, l)[k].object.id # id
        /\ last.op = "query_rect" => id \notin Range(last.result)

\* an id was removed, update_object was then called on it, and other objects
\* are still returned by queries
C10_Witness ==
    /\ last.op = "update_object"
    /\ last.id \in removed
    /\ objects # <<>>

----------------------------------------------------------------------------
(* physics::PhysicsBody *)

BodyTypes == {"Static", "Kinematic", "Dynamic"}

GRAVITY == Fx(1000)

TERMINAL_VELOCITY == Fx(400)

INFINITY == -1

is_finite(m) == m # INFINITY

\* linear_damping is kept in hundredths: 98 is 0.98
PhysicsBody_new(id, position, size, body_type) ==
    [id |-> id,
     body_type |-> body_type,
     position |-> position,
     velocity |-> ZERO,
     acceleration |-> ZERO,
     size |-> size,
     mass |-> IF body_type = "Dynamic"
              THEN RoundDiv(size.x * size.y, Scale) ELSE INFINITY,
     collision_layer |-> "World",
     use_gravity |-> (body_type = "Dynamic"),
     on_ground |-> FALSE,
     active |-> TRUE,
     max_velocity |-> Vec(Fx(400), TERMINAL_VELOCITY),
     linear_damping |-> 98]

get_rect(b) == Rect(b.position.x, b.position.y, b.size.x, b.size.y)

\* v / mass for a fixed-point vector and a fixed-point mass
DivMass(v, m) == Vec(RoundDiv(v.x * Scale, m), RoundDiv(v.y * Scale, m))

apply_force(b, force) ==
    IF b.body_type = "Dynamic" /\ is_finite(b.mass)
    THEN [b EXCEPT !.acceleration =
                       Vec(@.x + DivMass(force, b.mass).x,
                           @.y + DivMass(force, b.mass).y)]
    ELSE b

apply_impulse(b, impulse) ==
    IF b.body_type = "Dynamic" /\ is_finite(b.mass)
    THEN [b EXCEPT !.velocity =
                       Vec(@.x + DivMass(impulse, b.mass).x,
                           @.y + DivMass(impulse, b.mass).y)]
    ELSE b

set_velocity(b, velocity) ==
    IF b.body_type # "Static" THEN [b EXCEPT !.velocity = velocity] ELSE b

\* mutant: the Static guard is missing
set_position_unguarded(b, position) == [b EXCEPT !.position = position]

set_position(b, position) ==
    IF b.body_type # "Static" THEN [b EXCEPT !.position = position] ELSE b

clamp(v, lo, hi) == IF v < lo THEN lo ELSE IF v > hi THEN hi ELSE v

----------------------------------------------------------------------------
(* physics::PhysicsWorld.  A world w is [bodies |-> .., c |-> the collision *)
(* system, trace |-> ..]; trace records, for every body the move pass of   *)
(* the latest step handled, the position it had (from), the velocity the   *)
(* integration pass left (vint), the tentative position (target) and the   *)
(* collisions the move pass saw (hits).                                    *)

gravity == Vec(0, GRAVITY)

Put(f, k, v) == [i \in (DOMAIN f) \cup {k} |-> IF i = k THEN v ELSE f[i]]

Drop(f, k) == [i \in (DOMAIN f) \ {k} |-> f[i]]

world_add_body(w, nid, body) ==
    LET b == [body EXCEPT !.id = nid]
    IN [w EXCEPT !.c = cs_add_object(w.c, get_rect(b), b.collision_layer, "Solid"),
                 !.bodies = Put(w.bodies, nid, b)]

world_remove_body(w, id) ==
    IF id \in DOMAIN w.bodies
    THEN [w EXCEPT !.bodies = Drop(w.bodies, id),
                   !.c = cs_remove_object(w.c, id)]
    ELSE w

\* mutant: an id the world does not hold gets a body of its own
world_set_body_position_upsert(w, body_id, position) ==
    LET body == IF body_id \in DOMAIN w.bodies
                THEN set_position(w.bodies[body_id], position)
                ELSE PhysicsBody_new(body_id, position, Vec(Fx(32), Fx(32)), "Dynamic")
    IN [w EXCEPT !.bodies = Put(w.bodies, body_id, body),
                 !.c = cs_update_object(w.c, body_id, get_rect(body))]

world_set_body_position(w, body_id, position) ==
    IF body_id \in DOMAIN w.bodies
    THEN LET body == set_position(w.bodies[body_id], position)
         IN [w EXCEPT !.bodies[body_id] = body,
                      !.c = cs_update_object(w.c, body_id, get_rect(body))]
    ELSE w

world_set_body_velocity(w, body_id, velocity) ==
    IF body_id \in DOMAIN w.bodies
    THEN [w EXCEPT !.bodies[body_id] = set_velocity(@, velocity)]
    ELSE w

world_apply_force_to_body(w, body_id, force) ==
    IF body_id \in DOMAIN w.bodies
    THEN [w EXCEPT !.bodies[body_id] = apply_force(@, force)]
    ELSE w

world_apply_impulse_to_body(w, body_id, impulse) ==
    IF body_id \in DOMAIN w.bodies
    THEN [w EXCEPT !.bodies[body_id] = apply_impulse(@, impulse)]
    ELSE w

world_clear(w) == [w EXCEPT !.bodies = <<>>, !.c = cs_clear(w.c)]

\* mutant: the acceleration is kept for the next step
integrate_keeping_acceleration(b) ==
    IF ~b.active \/ b.body_type # "Dynamic" THEN b
    ELSE LET acc == IF b.use_gravity
                    THEN Vec(b.acceleration.x + gravity.x,
                             b.acceleration.y + gravity.y)
                    ELSE b.acceleration
             vx == RoundDiv((b.velocity.x + RoundDiv(acc.x, Scale)) * b.linear_damping, 100)
             vy == RoundDiv((b.velocity.y + RoundDiv(acc.y, Scale)) * b.linear_damping, 100)
         IN [b EXCEPT !.velocity =
                          Vec(clamp(vx, -b.max_velocity.x, b.max_velocity.x),
                              clamp(vy, -b.max_velocity.y, b.max_velocity.y))]

\* the body of the first loop of step
integrate(b) ==
    IF ~b.active \/ b.body_type = "Static" THEN b
    ELSE LET acc == IF b.use_gravity /\ b.body_type = "Dynamic"
                    THEN Vec(b.acceleration.x + gravity.x,
                             b.acceleration.y + gravity.y)
                    ELSE b.acceleration
             vx == RoundDiv((b.velocity.x + RoundDiv(acc.x, Scale)) * b.linear_damping, 100)
             vy == RoundDiv((b.velocity.y + RoundDiv(acc.y, Scale)) * b.linear_damping, 100)
         IN [b EXCEPT !.velocity =
                          IF b.body_type = "Dynamic"
                          THEN Vec(clamp(vx, -b.max_velocity.x, b.max_velocity.x),
                                   clamp(vy, -b.max_velocity.y, b.max_velocity.y))
                          ELSE b.velocity,
                      !.acceleration = ZERO]

\* mutant: a Trigger or Sensor stops the body
resolve_one_sensor_stops(st, body_id, new_rect, collision) ==
    IF collision.object.id = body_id THEN st
    ELSE IF collision.object.collision_type \in {"Trigger", "Sensor"}
    THEN [st EXCEPT !.velocity = ZERO]
    ELSE st

\* mutant: a Solid hit from below also counts as ground
resolve_one_up_grounds(st, body_id, new_rect, collision) ==
    IF collision.object.id = body_id THEN st
    ELSE CASE collision.object.collision_type = "Solid" ->
                [velocity |->
                     IF collision.direction \in {"Left", "Right"}
                     THEN Vec(0, st.velocity.y) ELSE Vec(st.velocity.x, 0),
                 resolved_position |->
                     Vec(resolve_collision(new_rect, collision).x,
                         resolve_collision(new_rect, collision).y),
                 hit_ground |-> st.hit_ground \/ collision.direction \in {"Up", "Down"}]
           [] collision.object.collision_type = "Platform" ->
                IF collision.direction = "Down" /\ st.velocity.y >= 0
                THEN [velocity |-> Vec(st.velocity.x, 0),
                      resolved_position |->
                          Vec(st.resolved_position.x,
                              resolve_collision(new_rect, collision).y),
                      hit_ground |-> TRUE]
                ELSE st
           [] OTHER -> st

\* mutant: a Platform resolves a body whatever its vertical velocity
resolve_one_any_velocity(st, body_id, new_rect, collision) ==
    IF collision.object.id = body_id THEN st
    ELSE IF collision.object.collision_type = "Platform" /\ collision.direction = "Down"
    THEN [velocity |-> Vec(st.velocity.x, 0),
          resolved_position |->
              Vec(st.resolved_position.x, resolve_collision(new_rect, collision).y),
          hit_ground |-> TRUE]
    ELSE st

\* mutant: a Solid hit stops the body on both axes
resolve_one_stop(st, body_id, new_rect, collision) ==
    IF collision.object.id = body_id THEN st
    ELSE IF collision.object.collision_type = "Solid"
    THEN [velocity |-> ZERO,
          resolved_position |->
              Vec(resolve_collision(new_rect, collision).x,
                  resolve_collision(new_rect, collision).y),
          hit_ground |-> st.hit_ground \/ collision.direction = "Down"]
    ELSE st

\* one iteration of the collision loop of move_body_with_collision; st is
\* [velocity, resolved_position, hit_ground]
resolve_one(st, body_id, new_rect, collision) ==
    IF collision.object.id = body_id THEN st
    ELSE CASE collision.object.collision_type = "Solid" ->
                LET resolved_rect == resolve_collision(new_rect, collision)
                IN [velocity |->
                        IF collision.direction \in {"Left", "Right"}
                        THEN Vec(0, st.velocity.y) ELSE Vec(st.velocity.x, 0),
                    resolved_position |-> Vec(resolved_rect.x, resolved_rect.y),
                    hit_ground |-> st.hit_ground \/ collision.direction = "Down"]
           [] collision.object.collision_type = "Platform" ->
                IF collision.direction = "Down" /\ st.velocity.y >= 0
                THEN LET resolved_rect == resolve_collision(new_rect, collision)
                     IN [velocity |-> Vec(st.velocity.x, 0),
                         resolved_position |-> Vec(st.resolved_position.x, resolved_rect.y),
                         hit_ground |-> TRUE]
                ELSE st
           [] OTHER -> st

RECURSIVE resolve_all(_, _, _, _, _)
resolve_all(st, body_id, new_rect, collisions, i) ==
    IF i > Len(collisions) THEN st
    ELSE resolve_all(resolve_one(st, body_id, new_rect, collisions[i]),
                     body_id, new_rect, collisions, i + 1)

move_body_with_collision(w, body_id, target_position) ==
    IF body_id \notin DOMAIN w.bodies THEN w
    ELSE IF w.bodies[body_id].body_type = "Static" THEN w
    ELSE LET body == w.bodies[body_id]
             new_rect == get_rect([body EXCEPT !.position = target_position])
             collisions == check_collisions(w.c, new_rect, body.collision_layer)
             st == resolve_all([velocity |-> body.velocity,
                                resolved_position |-> target_position,
                                hit_ground |-> FALSE],
                               body_id, new_rect, collisions, 1)
             moved == IF collisions = <<>>
                      THEN [body EXCEPT !.position = target_position,
                                        !.on_ground = FALSE]
                      ELSE [body EXCEPT !.position = st.resolved_position,
                                        !.velocity = st.velocity,
                                        !.on_ground = st.hit_ground]
         IN [w EXCEPT !.bodies = Put(w.bodies, body_id, moved),
                      !.trace = Put(w.trace, body_id,
                                    [from |-> body.position,
                                     vint |-> body.velocity,
                                     target |-> target_position,
                                     hits |-> collisions])]

RECURSIVE integrate_all(_, _, _)
integrate_all(w, body_ids, i) ==
    IF i > Len(body_ids) THEN w
    ELSE integrate_all(
             IF body_ids[i] \in DOMAIN w.bodies
             THEN [w EXCEPT !.bodies[body_ids[i]] = integrate(@)]
             ELSE w,
             body_ids, i + 1)

RECURSIVE move_all(_, _, _)
move_all(w, body_ids, i) ==
    IF i > Len(body_ids) THEN w
    ELSE move_all(
             IF body_ids[i] \in DOMAIN w.bodies
                /\ w.bodies[body_ids[i]].active
                /\ w.bodies[body_ids[i]].body_type # "Static"
             THEN LET body == w.bodies[body_ids[i]]
                  IN move_body_with_collision(
                         w, body_ids[i],
                         Vec(body.position.x + RoundDiv(body.velocity.x, Scale),
                             body.position.y + RoundDiv(body.velocity.y, Scale)))
             ELSE w,
             body_ids, i + 1)

RECURSIVE resync_all(_, _, _)
resync_all(w, body_ids, i) ==
    IF i > Len(body_ids) THEN w
    ELSE resync_all(
             [w EXCEPT !.c = cs_update_object(w.c, w.bodies[body_ids[i]].id,
                                              get_rect(w.bodies[body_ids[i]]))],
             body_ids, i + 1)

RECURSIVE move_all_resyncing(_, _, _)
\* mutant: each body's collision object follows it as soon as it has moved
move_all_resyncing(w, body_ids, i) ==
    IF i > Len(body_ids) THEN w
    ELSE move_all_resyncing(
             resync_all(move_all(w, <<body_ids[i]>>, 1), <<body_ids[i]>>, 1),
             body_ids, i + 1)

\* mutant: the bodies are resolved against the rects of the bodies moved
\* before them
step_against_moved(w, body_ids) ==
    move_all_resyncing(integrate_all([w EXCEPT !.trace = NoTrace], body_ids, 1),
                       body_ids, 1)

\* mutant: the collision system is not resynced after the move pass
step_no_resync(w, body_ids) ==
    move_all(integrate_all([w EXCEPT !.trace = NoTrace], body_ids, 1), body_ids, 1)

\* body_ids is the order in which the HashMap yields the bodies
step(w, body_ids) ==
    resync_all(move_all(integrate_all([w EXCEPT !.trace = NoTrace], body_ids, 1),
                        body_ids, 1),
               body_ids, 1)

----------------------------------------------------------------------------
(* The f32 accumulator.  Times are integers in units of 2^-30 s. *)

\* f32(1.0 / 60.0) = 8947849 * 2^-29
FIXED_TIMESTEP == 17895698

RECURSIVE Ulp(_)
\* the spacing of the f32 values around x >= 0
Ulp(x) == IF x < 16777216 THEN 1 ELSE 2 * Ulp(x \div 2)

\* x >= 0 rounded to the nearest f32, ties to even
RoundF32(x) ==
    LET q == Ulp(x)
        m == x \div q
        r == x % q
    IN IF 2 * r > q \/ (2 * r = q /\ m % 2 = 1) THEN (m + 1) * q ELSE m * q

RECURSIVE run_steps(_, _, _, _)
\* the while loop of update; [w, accumulator, n] when it ends
run_steps(w, acc, n, body_ids) ==
    IF acc >= FIXED_TIMESTEP
    THEN run_steps(step(w, body_ids), RoundF32(acc - FIXED_TIMESTEP), n + 1, body_ids)
    ELSE [w |-> w, accumulator |-> acc, n |-> n]

world_update(w, acc, delta_time, body_ids) ==
    run_steps(w, RoundF32(acc + delta_time), 0, body_ids)

----------------------------------------------------------------------------
(* A PhysicsWorld driven through its public operations *)

W == [bodies |-> bodies, c |-> CS, trace |-> NoTrace]

SetW(w) ==
    /\ bodies' = w.bodies
    /\ SetCS(w.c)

\* the orders in which a HashMap over the keys S may be iterated
Orders(S) ==
    {o \in [1..Cardinality(S) -> S] : \A i, j \in DOMAIN o : o[i] = o[j] => i = j}

BodySize == Vec(Fx(32), Fx(32))

Floor == PhysicsBody_new(0, Vec(Fx(0), Fx(64)), Vec(Fx(128), Fx(32)), "Static")

Positions ==
    {Vec(Fx(48), Fx(32)),       \* standing on the floor's top edge
     Vec(Fx(48), Fx(90)),       \* overlapping the floor, centre below its centre
     Vec(Fx(-20), Fx(60))}      \* overlapping the floor's left end

Velocities == {Vec(Fx(100), Fx(50)), Vec(0, Fx(-300))}

Forces == {Vec(Fx(61440), 0)}

Impulses == {Vec(0, Fx(102400))}

BodyInputs ==
    {Floor}
    \cup {[PhysicsBody_new(0, Vec(Fx(48), Fx(32)), BodySize, t)
              EXCEPT !.collision_layer = "Player"] : t \in {"Kinematic", "Dynamic"}}

BodyIds == 1..MaxBodies

\* the history names an operation only when its target is not a moving body
\* of the world (a Static body, or an id the world does not hold)
OpOn(id, op) ==
    IF id \in DOMAIN bodies /\ bodies[id].body_type # "Static"
    THEN Last("op") ELSE [Last(op) EXCEPT !.id = id]

WorldInit == GridInit

AddBody ==
    \E body \in BodyInputs :
        /\ next_id <= MaxBodies
        /\ SetW(world_add_body(W, next_id, body))
        /\ next_id' = next_id + 1
        /\ added' = Put(added, next_id, [body EXCEPT !.id = next_id])
        /\ last' = Last("op")
        /\ UNCHANGED <<engine, badguy_system, object_manager, layer_matrix, accumulator, paused, removed, steps, fed, ops>>

RemoveBody ==
    \E id \in BodyIds :
        /\ SetW(world_remove_body(W, id))
        /\ removed' = IF id \in DOMAIN bodies THEN removed \cup {id} ELSE removed
        /\ last' = OpOn(id, "remove_body")
        /\ UNCHANGED <<engine, badguy_system, object_manager, layer_matrix, next_id, accumulator, paused, added, steps, fed, ops>>

SetBodyPosition ==
    \E id \in BodyIds, position \in Positions :
        /\ SetW(world_set_body_position(W, id, position))
        /\ last' = OpOn(id, "set_body_position")
        /\ UNCHANGED <<engine, badguy_system, object_manager, layer_matrix, next_id, accumulator, paused, removed, added, steps, fed>>
        /\ ops < MaxOps
        /\ ops' = ops + 1

SetBodyVelocity ==
    \E id \in BodyIds, velocity \in Velocities :
        /\ SetW(world_set_body_velocity(W, id, velocity))
        /\ last' = OpOn(id, "set_body_velocity")
        /\ UNCHANGED <<engine, badguy_system, object_manager, layer_matrix, next_id, accumulator, paused, removed, added, steps, fed>>
        /\ ops < MaxOps
        /\ ops' = ops + 1

ApplyForceToBody ==
    \E id \in BodyIds, force \in Forces :
        /\ SetW(world_apply_force_to_body(W, id, force))
        /\ last' = OpOn(id, "apply_force_to_body")
        /\ UNCHANGED <<engine, badguy_system, object_manager, layer_matrix, next_id, accumulator, paused, removed, added, steps, fed>>
        /\ ops < MaxOps
        /\ ops' = ops + 1

ApplyImpulseToBody ==
    \E id \in BodyIds, impulse \in Impulses :
        /\ SetW(world_apply_impulse_to_body(W, id, impulse))
        /\ last' = OpOn(id, "apply_impulse_to_body")
        /\ UNCHANGED <<engine, badguy_system, object_manager, layer_matrix, next_id, accumulator, paused, removed, added, steps, fed>>
        /\ ops < MaxOps
        /\ ops' = ops + 1

\* update(dt) for dt in dts, in behaviours of at most cap steps
Update(dts, cap) ==
    \E delta_time \in dts, body_ids \in Orders(DOMAIN bodies) :
        IF paused
        THEN /\ last' = Last("update_paused")
             /\ UNCHANGED <<engine, badguy_system, object_manager, objects, cells, cs_next_id, layer_matrix, bodies, next_id,
                            accumulator, paused, removed, added, steps, fed, ops>>
        ELSE LET r == world_update(W, accumulator, delta_time, body_ids)
             IN /\ steps + r.n <= cap
                /\ SetW(r.w)
                /\ accumulator' = r.accumulator
                /\ steps' = steps + r.n
                /\ fed' = fed + delta_time
                /\ last' = [Last("update") EXCEPT !.a = accumulator, !.dt = delta_time,
                                                  !.n = r.n, !.trace = r.w.trace]
                /\ UNCHANGED <<engine, badguy_system, object_manager, layer_matrix, next_id, paused, removed, added, ops>>

SetPaused ==
    \E p \in BOOLEAN :
        /\ paused' = p
        /\ last' = Last("set_paused")
        /\ UNCHANGED <<engine, badguy_system, object_manager, objects, cells, cs_next_id, layer_matrix, bodies, next_id,
                       accumulator, removed, added, steps, fed, ops>>

Clear ==
    /\ SetW(world_clear(W))
    /\ last' = Last("clear")
    /\ UNCHANGED <<engine, badguy_system, object_manager, layer_matrix, next_id, accumulator, paused, removed, added, steps, fed, ops>>

\* f32 frame times
WorldDts == {FIXED_TIMESTEP}

WorldUpdate == Update(WorldDts, MaxSteps)

WorldNext ==
    \/ AddBody
    \/ RemoveBody
    \/ SetBodyPosition
    \/ SetBodyVelocity
    \/ ApplyForceToBody
    \/ ApplyImpulseToBody
    \/ WorldUpdate
    \/ Clear

WorldSpec == WorldInit /\ [][WorldNext]_vars

----------------------------------------------------------------------------
(* Properties of the physics world *)

\* the bodies the move pass of the latest step handled
Moved == DOMAIN last.trace

MovedRect(id) ==
    Rect(last.trace[id].target.x, last.trace[id].target.y,
         bodies[id].size.x, bodies[id].size.y)

FromRect(id) ==
    Rect(last.trace[id].from.x, last.trace[id].from.y,
         bodies[id].size.x, bodies[id].size.y)

\* hit k of body id is a Solid object other than the body's own, which the
\* body entered from above: it was above the object's top edge before the
\* step, moves downward, and its centre is above the object's centre
EntersFromAbove(id, k) ==
    LET h == last.trace[id].hits[k]
    IN /\ h.object.collision_type = "Solid"
       /\ h.object.id # id
       /\ bodies[id].body_type = "Dynamic"
       /\ last.trace[id].vint.y > 0
       /\ bottom(FromRect(id)) <= top(h.object.rect)
       /\ center2(MovedRect(id)).y < center2(h.object.rect).y

\* C1 as claimed: a Dynamic body that moves downward onto a Solid object
\* from above ends the step with vertical velocity 0, its horizontal
\* velocity as the integration pass left it, and on_ground = TRUE.
C1_LandsOnSolid ==
    last.op = "update" =>
        \A id \in Moved :
            (Len(last.trace[id].hits) = 1 /\ EntersFromAbove(id, 1)) =>
                /\ bodies[id].velocity.y = 0
                /\ bodies[id].velocity.x = last.trace[id].vint.x
                /\ bodies[id].on_ground

\* C5: the collision system holds exactly one object per body of the world
\* and none for a removed body; the object carries the body's id and its
\* rect is the body's current rect.
C5_ShadowInSync ==
    /\ DOMAIN objects = DOMAIN bodies
    /\ removed \cap DOMAIN objects = {}
    /\ \A id \in DOMAIN bodies :
          /\ bodies[id].id = id
          /\ objects[id].id = id
          /\ objects[id].rect = get_rect(bodies[id])

\* an update has moved a body while another body is in the world and a
\* third id has been removed or is still to come
C5_Witness ==
    /\ last.op = "update"
    /\ Cardinality(DOMAIN bodies) >= 2
    /\ \E id \in Moved : bodies[id].position # last.trace[id].from

\* C6: a Static body keeps the position and velocity it was added with, and
\* its collision object keeps the rect it was added with.
C6_StaticFrozen ==
    \A id \in DOMAIN bodies :
        bodies[id].body_type = "Static" =>
            /\ bodies[id].position = added[id].position
            /\ bodies[id].velocity = added[id].velocity
            /\ id \in DOMAIN objects
            /\ objects[id].rect = get_rect(added[id])

\* a mutator has been called on a Static body after a step has run
C6_Witness ==
    /\ last.op \in {"set_body_position", "set_body_velocity",
                    "apply_force_to_body", "apply_impulse_to_body"}
    /\ last.id \in DOMAIN bodies
    /\ bodies[last.id].body_type = "Static"
    /\ steps >= 1

\* C7: when the moved rect overlaps exactly one interacting Solid object,
\* the velocity component on the axis of the reported direction is 0 after
\* the step and the other component is what the integration pass produced.
C7_SolidZeroesOneAxis ==
    last.op = "update" =>
        \A id \in Moved :
            LET t == last.trace[id]
            IN (Len(t.hits) = 1
                /\ t.hits[1].object.collision_type = "Solid"
                /\ t.hits[1].object.id # id) =>
                   IF t.hits[1].direction \in {"Left", "Right"}
                   THEN bodies[id].velocity = Vec(0, t.vint.y)
                   ELSE bodies[id].velocity = Vec(t.vint.x, 0)

\* a body with both velocity components non-zero has hit one Solid object
\* sideways
C7_Witness ==
    /\ last.op = "update"
    /\ \E id \in Moved :
          LET t == last.trace[id]
          IN /\ Len(t.hits) = 1
             /\ t.hits[1].object.collision_type = "Solid"
             /\ t.hits[1].object.id # id
             /\ t.hits[1].direction \in {"Left", "Right"}
             /\ t.vint.x # 0
             /\ t.vint.y # 0

----------------------------------------------------------------------------
(* The fixed-timestep clock: update and set_paused on their own *)

\* f32 frame times in units of 2^-30 s: half a timestep, one timestep,
\* 1.0 / 24.0 and 1.0 / 12.0
ClockDts == {8947849, FIXED_TIMESTEP, 44739244, 89478488}

ClockUpdate == Update(ClockDts, MaxClockSteps)

ClockNext ==
    \/ ClockUpdate
    \/ SetPaused

ClockSpec == WorldInit /\ [][ClockNext]_vars

\* C4 as claimed: an unpaused update(dt) that starts with accumulator a runs
\* exactly floor((a + dt) / FIXED_TIMESTEP) steps and leaves
\* (a + dt) mod FIXED_TIMESTEP in the accumulator, which stays in
\* [0, FIXED_TIMESTEP); the number of steps run in total is that of the
\* total time fed, however the time was split over the calls.
C4_ExactAccumulator ==
    /\ 0 <= accumulator
    /\ accumulator < FIXED_TIMESTEP
    /\ steps = fed \div FIXED_TIMESTEP
    /\ last.op = "update" =>
          /\ last.n = (last.a + last.dt) \div FIXED_TIMESTEP
          /\ accumulator = (last.a + last.dt) % FIXED_TIMESTEP

----------------------------------------------------------------------------
(* A world whose collision system also holds objects registered through
   collision_system_mut(): the only way a Platform gets there *)

DirectRect == Rect(Fx(0), Fx(64), Fx(128), Fx(32))

DirectTypes == {"Platform"}

\* collision_system_mut().add_object(rect, World, collision_type)
DirectAddObject ==
    \E collision_type \in DirectTypes :
        /\ cs_next_id - next_id < MaxDirect
        /\ SetCS(cs_add_object(CS, DirectRect, "World", collision_type))
        /\ last' = [Last("add_object") EXCEPT !.id = cs_next_id]
        /\ UNCHANGED <<engine, badguy_system, object_manager, layer_matrix, removed>>
        /\ WorldUnchanged

DirectNext ==
    \/ DirectAddObject
    \/ AddBody
    \/ SetBodyPosition
    \/ SetBodyVelocity
    \/ WorldUpdate

DirectSpec == WorldInit /\ [][DirectNext]_vars

\* hit k of body id is a Platform other than the body's own object
PlatformHit(id, k) ==
    /\ last.trace[id].hits[k].object.collision_type = "Platform"
    /\ last.trace[id].hits[k].object.id # id

\* C8 as claimed: a body whose vertical velocity is >= 0 and whose moved rect
\* overlaps a Platform with its centre above the platform's centre is
\* resolved: its bottom edge is put on the platform's top edge, its vertical
\* velocity becomes 0 and on_ground becomes TRUE.
C8_LandsOnPlatform ==
    last.op = "update" =>
        \A id \in Moved :
            LET t == last.trace[id]
            IN (/\ Len(t.hits) = 1
                /\ PlatformHit(id, 1)
                /\ t.vint.y >= 0
                /\ center2(MovedRect(id)).y < center2(t.hits[1].object.rect).y) =>
                   /\ bottom(get_rect(bodies[id])) = top(t.hits[1].object.rect)
                   /\ bodies[id].velocity.y = 0
                   /\ bodies[id].on_ground

\* C9: a body whose vertical velocity is < 0 and whose moved rect overlaps a
\* Platform and nothing else is not corrected: it ends the step at the
\* position the integration pass moved it to, with the velocity the
\* integration pass gave it and on_ground = FALSE.
C9_RisingPassesPlatform ==
    last.op = "update" =>
        \A id \in Moved :
            LET t == last.trace[id]
            IN (/\ Len(t.hits) = 1
                /\ t.hits[1].object.collision_type = "Platform"
                /\ t.vint.y < 0) =>
                   /\ bodies[id].position = t.target
                   /\ bodies[id].velocity = t.vint
                   /\ ~bodies[id].on_ground

\* a rising body has overlapped a Platform that reported Down, the one
\* direction a Platform resolves
C9_Witness ==
    /\ last.op = "update"
    /\ \E id \in Moved :
          LET t == last.trace[id]
          IN /\ Len(t.hits) = 1
             /\ PlatformHit(id, 1)
             /\ t.hits[1].direction = "Down"
             /\ t.vint.y < 0
             /\ bodies[id].position = t.target

----------------------------------------------------------------------------
(* The layer matrix of a collision system under set_layer_interaction *)

\* the layers given to set_layer_interaction: World-World and Player-Player
\* are pairs the default matrix does not hold
LayerInputs == {"World", "Player", "Item"}

\* last.result is the history of the calls: unordered pair -> the value of
\* the most recent call on it
SetLayerInteraction ==
    \E layer1 \in LayerInputs, layer2 \in LayerInputs, interact \in BOOLEAN :
        /\ layer_matrix' = set_layer_interaction(layer_matrix, layer1, layer2, interact)
        /\ last' = [Last("set_layer_interaction") EXCEPT
                       !.a = <<layer1, layer2>>,
                       !.result = Put(last.result, {layer1, layer2}, interact)]
        /\ UNCHANGED <<engine, badguy_system, object_manager, objects, cells, cs_next_id, removed>>
        /\ WorldUnchanged

LayerNext == SetLayerInteraction

LayerSpec == GridInit /\ [][LayerNext]_vars

\* the unordered pairs the documentation lists as interacting by default
InteractingPairs ==
    {{"World", "Player"}, {"World", "Enemy"}, {"World", "Projectile"},
     {"Player", "Enemy"}, {"Player", "Item"}, {"Player", "Trigger"},
     {"Player", "Projectile"}, {"Enemy", "Trigger"}, {"Enemy", "Projectile"},
     {"Trigger", "Projectile"}}

\* C11: after any sequence of set_layer_interaction calls layers_interact is
\* symmetric, and for a pair some call named it returns the value of the
\* most recent call on that unordered pair.
C11_MatrixSymmetric ==
    \A a \in Layers, b \in Layers :
        /\ layers_interact(a, b) = layers_interact(b, a)
        /\ {a, b} \in DOMAIN last.result =>
              layers_interact(a, b) = last.result[{a, b}]

\* a call has overridden the default of a pair of distinct layers, and the
\* pair read in the order opposite to the call returns the new value
C11_Witness ==
    /\ last.op = "set_layer_interaction"
    /\ last.a[1] # last.a[2]
    /\ last.result[{last.a[1], last.a[2]}] # ({last.a[1], last.a[2]} \in InteractingPairs)
    /\ layers_interact(last.a[2], last.a[1]) = last.result[{last.a[1], last.a[2]}]

----------------------------------------------------------------------------
(* check_collisions on a stand-alone collision system *)

\* moving rects, placed against the rects of GridRects
CheckRects ==
    {Rect(Fx(16), Fx(16), Fx(32), Fx(32)),      \* dx = dy > 0 against (0,0)
     Rect(Fx(-16), Fx(16), Fx(32), Fx(32)),     \* dx = -dy against (0,0)
     Rect(Fx(0), Fx(0), Fx(32), Fx(32)),        \* dx = dy = 0 against (0,0)
     Rect(Fx(20), Fx(4), Fx(32), Fx(32)),       \* to the right of (0,0)
     Rect(Fx(30), Fx(10), Fx(32), Fx(32)),      \* to the left of (48,16)
     Rect(Fx(40), Fx(30), Fx(32), Fx(32)),      \* below (48,16)
     Rect(Fx(-40), Fx(-40), Fx(200), Fx(200))}  \* around everything

CheckCollisions ==
    \E rect \in CheckRects, layer \in GridLayers :
        /\ last' = [Last("check_collisions") EXCEPT
                       !.result = check_collisions(CS, rect, layer), !.a = rect]
        /\ UNCHANGED <<engine, badguy_system, object_manager, objects, cells, cs_next_id, layer_matrix, removed>>
        /\ WorldUnchanged

CheckNext ==
    \/ GridAddObject
    \/ GridUpdateObject
    \/ CheckCollisions

CheckSpec == GridInit /\ [][CheckNext]_vars

\* twice (dx, dy): the centre of the query rect minus the centre of the
\* object of result k
Diff2(k) ==
    Vec(center2(last.a).x - center2(last.result[k].object.rect).x,
        center2(last.a).y - center2(last.result[k].object.rect).y)

\* C13: every result of check_collisions has direction Right when
\* |dx| > |dy| and dx > 0, Left when |dx| > |dy| and dx <= 0, Down when
\* |dx| <= |dy| and dy > 0, and Up otherwise, (dx, dy) being the centre of
\* the query rect minus the centre of the object's rect.
C13_DirectionRule ==
    last.op = "check_collisions" =>
        \A k \in DOMAIN last.result :
            LET d == Diff2(k)
            IN last.result[k].direction =
                  IF Abs(d.x) > Abs(d.y) /\ d.x > 0 THEN "Right"
                  ELSE IF Abs(d.x) > Abs(d.y) THEN "Left"
                  ELSE IF d.y > 0 THEN "Down"
                  ELSE "Up"

\* a result whose centres differ by the same non-zero amount on both axes
\* was given a vertical direction
C13_Witness ==
    /\ last.op = "check_collisions"
    /\ \E k \in DOMAIN last.result :
          /\ Abs(Diff2(k).x) = Abs(Diff2(k).y)
          /\ Diff2(k).x # 0
          /\ last.result[k].direction \in {"Up", "Down"}

----------------------------------------------------------------------------
(* Rect arithmetic as f32 computes it.  A coordinate is a signed integer
   count of 2^-20; every sum and difference is rounded to 24 significant
   bits (RoundF32), which is exact f32 arithmetic on these values. *)

\* 1.0 in units of 2^-20
One == 1048576

\* the f32 nearest to x, ties to even
F32(x) == IF x < 0 THEN 0 - RoundF32(0 - x) ELSE RoundF32(x)

right_f32(r) == F32(r.x + r.width)

bottom_f32(r) == F32(r.y + r.height)

\* width / 2.0 is exact for the even sizes of the inputs below
center_f32(r) == Vec(F32(r.x + (r.width \div 2)), F32(r.y + (r.height \div 2)))

intersects_f32(a, b) ==
    /\ left(a) < right_f32(b)
    /\ right_f32(a) > left(b)
    /\ top(a) < bottom_f32(b)
    /\ bottom_f32(a) > top(b)

get_collision_direction_f32(moving_rect, static_rect) ==
    LET dx == F32(center_f32(moving_rect).x - center_f32(static_rect).x)
        dy == F32(center_f32(moving_rect).y - center_f32(static_rect).y)
    IN IF Abs(dx) > Abs(dy)
       THEN (IF dx > 0 THEN "Right" ELSE "Left")
       ELSE (IF dy > 0 THEN "Down" ELSE "Up")

resolve_collision_f32(rect, collision) ==
    CASE collision.direction = "Left" ->
            [rect EXCEPT !.x = right_f32(collision.object.rect)]
      [] collision.direction = "Right" ->
            [rect EXCEPT !.x = F32(left(collision.object.rect) - rect.width)]
      [] collision.direction = "Up" ->
            [rect EXCEPT !.y = bottom_f32(collision.object.rect)]
      [] collision.direction = "Down" ->
            [rect EXCEPT !.y = F32(top(collision.object.rect) - rect.height)]

\* moving rects: 20.3f32 is 21286094 * 2^-20
ResolveRects ==
    {Rect(x, y, w, h) : x \in {0, One, One + 1, 2 * One},
                        y \in {0, One \div 2},
                        w \in {2 * One, 21286094},
                        h \in {2 * One, 4 * One}}

\* object rects of size 1 x 1
ResolveObjectRects ==
    {Rect(x, y, One, One) : x \in {One, One + 1, 3 * One}, y \in {0, One}}

\* check_collisions finds one object for rect and resolve_collision is
\* applied to the result
ResolveCollision ==
    \E rect \in ResolveRects, orect \in ResolveObjectRects :
        LET object == CollisionObject(1, orect, "World", "Solid")
            collision == [object |-> object,
                          direction |-> get_collision_direction_f32(rect, orect)]
        IN /\ intersects_f32(orect, rect)
           /\ last' = [Last("resolve_collision") EXCEPT
                          !.a = rect,
                          !.result = <<[collision |-> collision,
                                        resolved |-> resolve_collision_f32(rect, collision)]>>]
           /\ UNCHANGED <<engine, badguy_system, object_manager, objects, cells, cs_next_id, layer_matrix, removed>>
           /\ WorldUnchanged

ResolveNext == ResolveCollision

ResolveSpec == GridInit /\ [][ResolveNext]_vars

\* C14 as claimed: resolve_collision returns a rect of the same size that
\* differs from the input only in the coordinate on the axis of the
\* reported direction, has one edge flush with the object's edge, and no
\* longer intersects the object's rect.
C14_ResolvedClear ==
    last.op = "resolve_collision" =>
        LET rect == last.a
            c == last.result[1].collision
            r == last.result[1].resolved
            o == c.object.rect
        IN /\ r.width = rect.width
           /\ r.height = rect.height
           /\ c.direction \in {"Left", "Right"} => r.y = rect.y
           /\ c.direction \in {"Up", "Down"} => r.x = rect.x
           /\ c.direction = "Left" => left(r) = right_f32(o)
           /\ c.direction = "Right" => right_f32(r) = left(o)
           /\ c.direction = "Up" => top(r) = bottom_f32(o)
           /\ c.direction = "Down" => bottom_f32(r) = top(o)
           /\ ~intersects_f32(r, o)

----------------------------------------------------------------------------
(* on_ground after a step *)

\* hit k of body id was processed: it is not skipped as the body's own object
Processed(id, k) == last.trace[id].hits[k].object.id # id

\* hit k of body id was a Platform collision that got resolved: direction
\* Down, met with a vertical velocity >= 0, which is the integrated velocity
\* or the 0 an earlier Solid hit on the vertical axis left
ResolvedPlatform(id, k) ==
    LET t == last.trace[id]
    IN /\ Processed(id, k)
       /\ t.hits[k].object.collision_type = "Platform"
       /\ t.hits[k].direction = "Down"
       /\ \/ t.vint.y >= 0
          \/ \E j \in 1..(k - 1) :
                /\ Processed(id, j)
                /\ t.hits[j].object.collision_type = "Solid"
                /\ t.hits[j].direction \in {"Up", "Down"}

Grounds(id) ==
    \E k \in DOMAIN last.trace[id].hits :
        \/ /\ Processed(id, k)
           /\ last.trace[id].hits[k].object.collision_type = "Solid"
           /\ last.trace[id].hits[k].direction = "Down"
        \/ ResolvedPlatform(id, k)

\* C15: after a step every active non-Static body has on_ground = TRUE
\* exactly when it processed a Down collision with a Solid object or a
\* resolved Platform collision in that step; with no collision at all
\* on_ground is FALSE.
C15_OnGroundIffGrounded ==
    (last.op = "update" /\ last.n >= 1) =>
        /\ Moved = {id \in DOMAIN bodies :
                       bodies[id].active /\ bodies[id].body_type # "Static"}
        /\ \A id \in Moved :
              /\ bodies[id].on_ground <=> Grounds(id)
              /\ last.trace[id].hits = <<>> => ~bodies[id].on_ground

\* one body was put on a Platform in the step and is on the ground, and a
\* body hit a Solid object on the vertical axis without being grounded
C15_Witness ==
    /\ last.op = "update"
    /\ \E id \in Moved :
          /\ bodies[id].on_ground
          /\ \E k \in DOMAIN last.trace[id].hits : ResolvedPlatform(id, k)
    /\ \E id \in Moved :
          /\ ~bodies[id].on_ground
          /\ last.trace[id].hits # <<>>

----------------------------------------------------------------------------
(* A world whose collision system holds a Trigger or Sensor object *)

SensorTypes == {"Trigger", "Sensor"}

\* collision_system_mut().add_object(rect, World, collision_type)
SensorAddObject ==
    \E collision_type \in SensorTypes :
        /\ cs_next_id - next_id < MaxDirect
        /\ SetCS(cs_add_object(CS, DirectRect, "World", collision_type))
        /\ last' = [Last("add_object") EXCEPT !.id = cs_next_id]
        /\ UNCHANGED <<engine, badguy_system, object_manager, layer_matrix, removed>>
        /\ WorldUnchanged

SensorNext ==
    \/ SensorAddObject
    \/ AddBody
    \/ SetBodyPosition
    \/ WorldUpdate

SensorSpec == WorldInit /\ [][SensorNext]_vars

\* the moved rect of body id overlapped something, and only Trigger- or
\* Sensor-type objects
OnlySensors(id) ==
    /\ last.trace[id].hits # <<>>
    /\ \A k \in DOMAIN last.trace[id].hits :
          last.trace[id].hits[k].object.collision_type \in SensorTypes

\* C16: a body whose moved rect overlaps only Trigger- or Sensor-type
\* objects ends the step at the position the integrated velocity took it to
\* and with that velocity.
C16_SensorsDoNotBlock ==
    last.op = "update" =>
        \A id \in Moved :
            OnlySensors(id) =>
                /\ bodies[id].position = last.trace[id].target
                /\ bodies[id].velocity = last.trace[id].vint

\* a moving body has gone into a Trigger or Sensor object that is not its own
C16_Witness ==
    /\ last.op = "update"
    /\ \E id \in Moved :
          /\ OnlySensors(id)
          /\ Processed(id, 1)
          /\ last.trace[id].vint # ZERO
          /\ bodies[id].position # last.trace[id].from

----------------------------------------------------------------------------
(* update with its paused test, in a world that can be paused *)

\* mutant: a paused update keeps the time for later
update_keeping_time(w, acc, is_paused, delta_time, body_ids) ==
    IF is_paused
    THEN [w |-> w, accumulator |-> RoundF32(acc + delta_time), n |-> 0]
    ELSE world_update(w, acc, delta_time, body_ids)

\* PhysicsWorld::update: [w, accumulator, n] after the call
update(w, acc, is_paused, delta_time, body_ids) ==
    IF is_paused
    THEN [w |-> w, accumulator |-> acc, n |-> 0]
    ELSE world_update(w, acc, delta_time, body_ids)

\* half a timestep: two unpaused calls make one step, without rounding
PauseDts == {8947849}

\* last.result keeps the bodies and the collision system of before the call
PauseUpdate ==
    \E delta_time \in PauseDts, body_ids \in Orders(DOMAIN bodies) :
        LET r == update(W, accumulator, paused, delta_time, body_ids)
        IN /\ steps + r.n <= MaxSteps
           /\ SetW(r.w)
           /\ accumulator' = r.accumulator
           /\ steps' = steps + r.n
           /\ fed' = IF paused THEN fed ELSE fed + delta_time
           /\ last' = [Last(IF paused THEN "update_paused" ELSE "update") EXCEPT
                          !.a = accumulator, !.dt = delta_time, !.n = r.n,
                          !.trace = r.w.trace,
                          !.result = <<bodies, objects, cells>>]
           /\ UNCHANGED <<engine, badguy_system, object_manager, layer_matrix, next_id, paused, removed, added, ops>>

PauseNext ==
    \/ AddBody
    \/ SetPaused
    \/ PauseUpdate

PauseSpec == WorldInit /\ [][PauseNext]_vars

\* C17: an update while the world is paused leaves the accumulator, every
\* body and every collision object as they were, and the time given to it
\* is never replayed: the steps run are those of the time fed while not
\* paused.
C17_PausedUpdateIsNoOp ==
    /\ last.op = "update_paused" =>
          /\ accumulator = last.a
          /\ <<bodies, objects, cells>> = last.result
    /\ steps = fed \div FIXED_TIMESTEP

\* a paused update on a world that holds a falling body, half a timestep
\* into its next step
C17_Witness ==
    /\ last.op = "update_paused"
    /\ steps >= 1
    /\ accumulator = 8947849
    /\ \E id \in DOMAIN bodies : bodies[id].body_type = "Dynamic"

----------------------------------------------------------------------------
(* The ids handed out by add_object and add_body.  In this specification
   last.result is the history of the ids returned so far, in call order:
   [objects |-> those of CollisionSystem::add_object (the call inside
   add_body included), bodies |-> those of PhysicsWorld::add_body]. *)

Returned ==
    IF last.result = <<>> THEN [objects |-> <<>>, bodies |-> <<>>] ELSE last.result

\* collision_system_mut().add_object(..) returns the counter's value
IdAddObject ==
    \E rect \in GridRects :
        /\ Len(Returned.objects) < MaxIds
        /\ SetCS(cs_add_object(CS, rect, "World", "Solid"))
        /\ last' = [Last("add_object") EXCEPT
                       !.id = cs_next_id,
                       !.result = [Returned EXCEPT
                                      !.objects = Append(@, cs_next_id)]]
        /\ UNCHANGED <<engine, badguy_system, object_manager, layer_matrix, removed>>
        /\ WorldUnchanged

IdAddBody ==
    \E body \in BodyInputs :
        /\ Len(Returned.objects) < MaxIds
        /\ SetW(world_add_body(W, next_id, body))
        /\ next_id' = next_id + 1
        /\ added' = Put(added, next_id, [body EXCEPT !.id = next_id])
        /\ last' = [Last("add_body") EXCEPT
                       !.id = next_id,
                       !.result = [objects |-> Append(Returned.objects, cs_next_id),
                                   bodies |-> Append(Returned.bodies, next_id)]]
        /\ UNCHANGED <<engine, badguy_system, object_manager, layer_matrix, accumulator, paused, removed, steps, fed, ops>>

\* collision_system_mut().remove_object(id)
IdRemoveObject ==
    \E id \in 1..MaxIds :
        /\ SetCS(cs_remove_object(CS, id))
        /\ removed' = IF id \in DOMAIN objects THEN removed \cup {id} ELSE removed
        /\ last' = [Last("remove_object") EXCEPT !.id = id, !.result = Returned]
        /\ UNCHANGED <<engine, badguy_system, object_manager, layer_matrix>>
        /\ WorldUnchanged

IdRemoveBody ==
    \E id \in 1..MaxIds :
        /\ SetW(world_remove_body(W, id))
        /\ removed' = IF id \in DOMAIN bodies THEN removed \cup {id} ELSE removed
        /\ last' = [Last("remove_body") EXCEPT !.id = id, !.result = Returned]
        /\ UNCHANGED <<engine, badguy_system, object_manager, layer_matrix, next_id, accumulator, paused, added, steps, fed, ops>>

IdClear ==
    /\ SetW(world_clear(W))
    /\ last' = [Last("clear") EXCEPT !.result = Returned]
    /\ UNCHANGED <<engine, badguy_system, object_manager, layer_matrix, next_id, accumulator, paused, removed, added,
                   steps, fed, ops>>

IdNext ==
    \/ IdAddObject
    \/ IdAddBody
    \/ IdRemoveObject
    \/ IdRemoveBody
    \/ IdClear

IdSpec == WorldInit /\ [][IdNext]_vars

\* C18: the ids returned by add_object, and those returned by add_body, are
\* 1, 2, 3, ... in call order, so none is returned twice, whatever was
\* removed or cleared in between; the objects and the bodies alive at a time
\* are stored under the distinct ids they carry.
C18_IdsSequential ==
    /\ \A k \in DOMAIN Returned.objects : Returned.objects[k] = k
    /\ \A k \in DOMAIN Returned.bodies : Returned.bodies[k] = k
    /\ \A id \in DOMAIN objects : objects[id].id = id
    /\ \A id \in DOMAIN bodies : bodies[id].id = id

\* an id has been returned after a clear emptied a world that had handed
\* out ids before
C18_Witness ==
    /\ last.op \in {"add_object", "add_body"}
    /\ Len(Returned.objects) >= 2
    /\ Cardinality(DOMAIN objects) = 1
    /\ removed = {}

----------------------------------------------------------------------------
(* Operations on an id the world does not hold *)

ByIdOps ==
    {"set_body_velocity", "set_body_position", "apply_force_to_body",
     "apply_impulse_to_body", "remove_body"}

\* C19: set_body_velocity, set_body_position, apply_force_to_body,
\* apply_impulse_to_body and remove_body called with an id that is not in
\* the world leave every body and every collision object as they were.
C19_UnknownIdIsNoOp ==
    [][(last'.op \in ByIdOps /\ last'.id \notin DOMAIN bodies) =>
           (bodies' = bodies /\ objects' = objects /\ cells' = cells)]_vars

\* set_body_position has been called with the id of a removed body while
\* another body is in the world
C19_Witness ==
    /\ last.op = "set_body_position"
    /\ last.id \in removed
    /\ last.id \notin DOMAIN bodies
    /\ DOMAIN bodies # {}

----------------------------------------------------------------------------
(* Integration: velocities beyond max_velocity, and forces *)

\* velocities beyond max_velocity = (400, 400)
FastVelocities == {Vec(0, Fx(-1000)), Vec(Fx(1000), 0)}

FastSetBodyVelocity ==
    \E id \in BodyIds, velocity \in FastVelocities :
        /\ SetW(world_set_body_velocity(W, id, velocity))
        /\ last' = OpOn(id, "set_body_velocity")
        /\ UNCHANGED <<engine, badguy_system, object_manager, layer_matrix, next_id, accumulator, paused, removed, added, steps, fed>>
        /\ ops < MaxOps
        /\ ops' = ops + 1

ForceNext ==
    \/ AddBody
    \/ FastSetBodyVelocity
    \/ ApplyForceToBody
    \/ WorldUpdate

ForceSpec == WorldInit /\ [][ForceNext]_vars

\* C20: after a step every active Dynamic body has both velocity components
\* within [-max_velocity, +max_velocity] and every active non-Static body
\* has acceleration zero, so that a force applied before the step does not
\* act again in the next one.
C20_ClampedAndReset ==
    (last.op = "update" /\ last.n >= 1) =>
        \A id \in DOMAIN bodies :
            LET b == bodies[id]
            IN /\ (b.active /\ b.body_type = "Dynamic") =>
                      /\ Abs(b.velocity.x) <= b.max_velocity.x
                      /\ Abs(b.velocity.y) <= b.max_velocity.y
               /\ (b.active /\ b.body_type # "Static") => b.acceleration = ZERO

\* a Dynamic body that was given a velocity beyond the maximum and a force:
\* the step clamped the one and integrated the other
C20_Witness ==
    /\ last.op = "update"
    /\ \E id \in Moved :
          /\ bodies[id].body_type = "Dynamic"
          /\ last.trace[id].vint.y = 0 - bodies[id].max_velocity.y
          /\ last.trace[id].vint.x \in 1..Fx(1)
          /\ bodies[id].acceleration = ZERO

----------------------------------------------------------------------------
(* object: components, GameObject, GameObjectManager *)

\* 1.0 s in units of 2^-27 s
Sec == 134217728

\* Option::None
None == [none |-> TRUE]

Transform_new(position) == [position |-> position, rotation |-> 0, scale |-> Vec(1, 1)]

PhysicsComponent_new(body_id, body_type, collision_layer) ==
    [body_id |-> body_id, body_type |-> body_type, collision_layer |-> collision_layer]

Health_new(max_health) ==
    [current |-> max_health, maximum |-> max_health,
     invulnerable |-> FALSE, invulnerability_time |-> 0]

Health_take_damage(h, damage) ==
    IF ~h.invulnerable THEN [h EXCEPT !.current = Max(h.current - damage, 0)] ELSE h

GameObject_new(id, name) ==
    [id |-> id, active |-> TRUE, name |-> name, tag |-> "", components |-> <<>>]

\* mutant: a component of a kind the object already has is not replaced
add_component_keeping_first(obj, kind, component) ==
    IF kind \in DOMAIN obj.components THEN obj
    ELSE [obj EXCEPT !.components = Put(obj.components, kind, component)]

\* the type T of the source is the kind
add_component(obj, kind, component) ==
    [obj EXCEPT !.components = Put(obj.components, kind, component)]

get_component(obj, kind) ==
    IF kind \in DOMAIN obj.components THEN obj.components[kind] ELSE None

has_component(obj, kind) == kind \in DOMAIN obj.components

remove_component(obj, kind) ==
    IF kind \in DOMAIN obj.components
    THEN [obj EXCEPT !.components = Drop(obj.components, kind)] ELSE obj

position(obj) ==
    IF has_component(obj, "Transform") THEN get_component(obj, "Transform").position ELSE ZERO

create_object(om, name) ==
    [om EXCEPT !.objects = Put(om.objects, om.next_id, GameObject_new(om.next_id, name)),
               !.next_id = om.next_id + 1]

get_object(om, id) == IF id \in DOMAIN om.objects THEN om.objects[id] ELSE None

\* [om, w, id]: the manager and the world after the call, and the id returned
create_physics_object(om, w, nid, name, pos, size, body_type, collision_layer) ==
    LET id == om.next_id
        om1 == create_object(om, name)
        w1 == world_add_body(w, nid, PhysicsBody_new(0, pos, size, body_type))
        o1 == add_component(om1.objects[id], "Transform", Transform_new(pos))
        o2 == add_component(o1, "PhysicsComponent",
                            PhysicsComponent_new(nid, body_type, collision_layer))
    IN [om |-> [om1 EXCEPT !.objects[id] = o2], w |-> w1, id |-> id]

SpriteComponent_new == [visible |-> TRUE, layer |-> 0]

----------------------------------------------------------------------------
(* supertux: PlayerController and PlayerInputSystem *)

PlayerController_new ==
    [state |-> "Idle",
     move_speed |-> Fx(150),
     run_speed |-> Fx(250),
     jump_velocity |-> Fx(-400),
     can_jump |-> TRUE,
     on_ground |-> FALSE,
     facing_right |-> TRUE,
     invulnerable |-> FALSE,
     invulnerability_time |-> 0,
     lives |-> 3,
     score |-> 0,
     coins |-> 0]

jump(c) ==
    IF c.can_jump /\ c.on_ground
    THEN [c EXCEPT !.state = "Jumping", !.can_jump = FALSE] ELSE c

start_moving_left(c) ==
    [c EXCEPT !.facing_right = FALSE,
              !.state = IF c.on_ground THEN "Walking" ELSE @]

start_moving_right(c) ==
    [c EXCEPT !.facing_right = TRUE,
              !.state = IF c.on_ground THEN "Walking" ELSE @]

stop_horizontal_movement(c) ==
    IF c.on_ground /\ c.state \in {"Walking", "Running"}
    THEN [c EXCEPT !.state = "Idle"] ELSE c

start_ducking(c) == IF c.on_ground THEN [c EXCEPT !.state = "Ducking"] ELSE c

stop_ducking(c) == IF c.state = "Ducking" THEN [c EXCEPT !.state = "Idle"] ELSE c

\* mutant: the invulnerability flag is not consulted
take_damage_always(c) ==
    [c EXCEPT !.lives = @ - 1,
              !.invulnerable = TRUE,
              !.invulnerability_time = 2 * Sec,
              !.state = IF c.lives - 1 <= 0 THEN "Dead" ELSE @]

take_damage(c) ==
    IF ~c.invulnerable
    THEN [c EXCEPT !.lives = @ - 1,
                   !.invulnerable = TRUE,
                   !.invulnerability_time = 2 * Sec,
                   !.state = IF c.lives - 1 <= 0 THEN "Dead" ELSE @]
    ELSE c

add_score(c, points) == [c EXCEPT !.score = @ + points]

add_coin(c) ==
    LET c1 == add_score([c EXCEPT !.coins = @ + 1], 200)
    IN IF c1.coins % 100 = 0 THEN [c1 EXCEPT !.lives = @ + 1] ELSE c1

is_alive(c) == c.state # "Dead"

\* lines 176-181 of PlayerInputSystem::update
update_invulnerability(c, delta_time) ==
    IF c.invulnerable
    THEN LET t == F32(c.invulnerability_time - delta_time)
         IN [c EXCEPT !.invulnerability_time = t,
                      !.invulnerable = ~(t <= 0)]
    ELSE c

\* lines 192-221: the controller after the input has been handled
handle_input(c, input) ==
    LET horizontal_input == IF "MoveRight" \in input.pressed THEN 1
                            ELSE IF "MoveLeft" \in input.pressed THEN -1 ELSE 0
        c1 == IF "MoveLeft" \in input.pressed THEN start_moving_left(c) ELSE c
        c2 == IF "MoveRight" \in input.pressed THEN start_moving_right(c1) ELSE c1
        c3 == IF horizontal_input = 0 THEN stop_horizontal_movement(c2) ELSE c2
        c4 == IF "Run" \in input.pressed /\ horizontal_input # 0 /\ c3.on_ground
              THEN [c3 EXCEPT !.state = "Running"] ELSE c3
        c5 == IF "Jump" \in input.just_pressed THEN jump(c4) ELSE c4
    IN IF "Duck" \in input.pressed THEN start_ducking(c5) ELSE stop_ducking(c5)

\* lines 224-245: the velocity handed to the physics body
apply_movement(c, w, body_id, input) ==
    IF body_id \in DOMAIN w.bodies
    THEN LET current_velocity == w.bodies[body_id].velocity
             horizontal_input == IF "MoveRight" \in input.pressed THEN 1
                                 ELSE IF "MoveLeft" \in input.pressed THEN -1 ELSE 0
             speed == IF "Run" \in input.pressed THEN c.run_speed ELSE c.move_speed
             jumping == c.state = "Jumping" /\ c.can_jump
             new_velocity ==
                 Vec(IF c.state # "Ducking" THEN horizontal_input * speed ELSE 0,
                     IF jumping THEN c.jump_velocity ELSE current_velocity.y)
         IN [c |-> IF jumping THEN [c EXCEPT !.can_jump = FALSE] ELSE c,
             w |-> world_set_body_velocity(w, body_id, new_velocity)]
    ELSE [c |-> c, w |-> w]

\* lines 248-267: the controller state read back from the physics body
state_from_physics(c, w, body_id, input) ==
    IF body_id \in DOMAIN w.bodies
    THEN LET body == w.bodies[body_id]
             c1 == [c EXCEPT !.on_ground = body.on_ground]
         IN IF ~c1.on_ground
            THEN [c1 EXCEPT !.state = IF body.velocity.y < 0 THEN "Jumping" ELSE "Falling"]
            ELSE [c1 EXCEPT !.can_jump = TRUE,
                            !.state = IF {"MoveLeft", "MoveRight"} \cap input.pressed = {}
                                         /\ c1.state # "Ducking"
                                      THEN "Idle" ELSE @]
    ELSE c

\* mutant: a dead player's input is handled like a living player's
PlayerInputSystem_update_ignoring_death(om, w, player_id, input, delta_time) ==
    LET player_obj == get_object(om, player_id)
    IN IF player_obj = None \/ ~player_obj.active
          \/ ~has_component(player_obj, "PhysicsComponent")
          \/ ~has_component(player_obj, "PlayerController")
       THEN [om |-> om, w |-> w]
       ELSE LET body_id == get_component(player_obj, "PhysicsComponent").body_id
                c1 == update_invulnerability(
                          get_component(player_obj, "PlayerController"), delta_time)
                m == apply_movement(handle_input(c1, input), w, body_id, input)
                c2 == state_from_physics(m.c, m.w, body_id, input)
            IN [om |-> [om EXCEPT !.objects[player_id].components["PlayerController"] = c2],
                w |-> m.w]

\* [om, w]: the object manager and the physics world after the update
PlayerInputSystem_update(om, w, player_id, input, delta_time) ==
    LET player_obj == get_object(om, player_id)
    IN IF player_obj = None \/ ~player_obj.active
          \/ ~has_component(player_obj, "PhysicsComponent")
          \/ ~has_component(player_obj, "PlayerController")
       THEN [om |-> om, w |-> w]
       ELSE LET body_id == get_component(player_obj, "PhysicsComponent").body_id
                c1 == update_invulnerability(
                          get_component(player_obj, "PlayerController"), delta_time)
            IN IF ~is_alive(c1)
               THEN [om |-> [om EXCEPT !.objects[player_id].components["PlayerController"] = c1],
                     w |-> w]
               ELSE LET m == apply_movement(handle_input(c1, input), w, body_id, input)
                        c2 == state_from_physics(m.c, m.w, body_id, input)
                    IN [om |-> [om EXCEPT
                                  !.objects[player_id].components["PlayerController"] = c2],
                        w |-> m.w]

\* GameWorld::create_player
create_player(om, w, nid, pos) ==
    LET id == om.next_id
        om1 == create_object(om, "Tux")
        w1 == world_add_body(w, nid, PhysicsBody_new(0, pos, Vec(Fx(32), Fx(32)), "Dynamic"))
        o1 == add_component(om1.objects[id], "Transform", Transform_new(pos))
        o2 == add_component(o1, "SpriteComponent", SpriteComponent_new)
        o3 == add_component(o2, "PhysicsComponent",
                            PhysicsComponent_new(nid, "Dynamic", "Player"))
        o4 == add_component(o3, "PlayerController", PlayerController_new)
        o5 == add_component(o4, "Health", Health_new(1))
    IN [om |-> [om1 EXCEPT !.objects[id] = [o5 EXCEPT !.tag = "player"]],
        w |-> w1, id |-> id]

----------------------------------------------------------------------------
(* A GameWorld with a player: create_player, a platform registered with the
   collision system, physics steps, input updates, and the controller's
   take_damage and add_coin.  ops counts the calls on the player. *)

MaxPlayerOps == 6   \* input updates, take_damage and add_coin calls per behaviour

\* overlapping the platform, centre below its centre
PlayerPositions == {Vec(Fx(48), Fx(90))}

NoInput == [pressed |-> {}, just_pressed |-> {}]

PlayerInputs ==
    {NoInput,
     [pressed |-> {"Jump"}, just_pressed |-> {"Jump"}],
     [pressed |-> {"Jump", "Duck"}, just_pressed |-> {"Jump"}],
     [pressed |-> {"MoveRight", "Run"}, just_pressed |-> {}]}

PlayerDts == {Sec \div 2, 2 * Sec}

OM == object_manager

player_id == 1

HasPlayer == player_id \in DOMAIN object_manager.objects

Controller == get_component(object_manager.objects[player_id], "PlayerController")

PlayerBody ==
    bodies[get_component(object_manager.objects[player_id], "PhysicsComponent").body_id]

\* what the player operations record: the controller and the body before the call
Before == [controller |-> Controller, body |-> PlayerBody]

PlayerCreate ==
    \E pos \in PlayerPositions :
        LET r == create_player(OM, W, next_id, pos)
        IN /\ ~HasPlayer
           /\ next_id <= MaxBodies
           /\ object_manager' = r.om
           /\ SetW(r.w)
           /\ next_id' = next_id + 1
           /\ added' = Put(added, next_id, r.w.bodies[next_id])
           /\ last' = Last("create_player")
           /\ UNCHANGED <<engine, badguy_system, layer_matrix, accumulator, paused, removed,
                          steps, fed, ops>>

PlayerInputUpdate ==
    \E input \in PlayerInputs, delta_time \in PlayerDts :
        LET r == PlayerInputSystem_update(OM, W, player_id, input, delta_time)
        IN /\ HasPlayer
           /\ ops < MaxPlayerOps
           /\ ops' = ops + 1
           /\ object_manager' = r.om
           /\ SetW(r.w)
           /\ last' = [Last("player_update") EXCEPT !.a = input, !.dt = delta_time,
                                                     !.result = Before]
           /\ UNCHANGED <<engine, badguy_system, layer_matrix, next_id, accumulator, paused,
                          removed, added, steps, fed>>

PlayerTakeDamage ==
    /\ HasPlayer
    /\ ops < MaxPlayerOps
    /\ ops' = ops + 1
    /\ object_manager' = [OM EXCEPT !.objects[player_id].components["PlayerController"] =
                                        take_damage(@)]
    /\ last' = [Last("take_damage") EXCEPT !.result = Before]
    /\ UNCHANGED <<engine, badguy_system, objects, cells, cs_next_id, layer_matrix, bodies,
                   next_id, accumulator, paused, removed, added, steps, fed>>

PlayerAddCoin ==
    /\ HasPlayer
    /\ ops < MaxPlayerOps
    /\ ops' = ops + 1
    /\ object_manager' = [OM EXCEPT !.objects[player_id].components["PlayerController"] =
                                        add_coin(@)]
    /\ last' = [Last("add_coin") EXCEPT !.result = Before]
    /\ UNCHANGED <<engine, badguy_system, objects, cells, cs_next_id, layer_matrix, bodies,
                   next_id, accumulator, paused, removed, added, steps, fed>>

\* collision_system_mut().add_object(rect, layer, Platform).  The player's body
\* is on layer World (PhysicsBody::new), which does not interact with World, so
\* the platform is on a layer that interacts with it.
PlatformLayers == {"Player"}

PlayerAddPlatform ==
    \E layer \in PlatformLayers :
        /\ cs_next_id - next_id < MaxDirect
        /\ SetCS(cs_add_object(CS, DirectRect, layer, "Platform"))
        /\ last' = [Last("add_object") EXCEPT !.id = cs_next_id]
        /\ UNCHANGED <<engine, badguy_system, object_manager, layer_matrix, removed>>
        /\ WorldUnchanged

PlayerNext ==
    \/ PlayerCreate
    \/ PlayerAddPlatform
    \/ WorldUpdate
    \/ PlayerInputUpdate
    \/ PlayerTakeDamage
    \/ PlayerAddCoin

PlayerSpec == WorldInit /\ [][PlayerNext]_vars

PlayerOps == {"player_update", "take_damage", "add_coin"}

\* C21: when Jump is newly pressed in an input update of a living player whose
\* controller has can_jump and on_ground set, the update leaves the body with
\* the vertical velocity jump_velocity (-400).
C21_JumpSetsVelocity ==
    (/\ last.op = "player_update"
     /\ "Jump" \in last.a.just_pressed
     /\ is_alive(last.result.controller)
     /\ last.result.controller.can_jump
     /\ last.result.controller.on_ground)
    => PlayerBody.velocity.y = Controller.jump_velocity

\* the update of C21 happened: Jump newly pressed, controller alive, able to jump, on the ground
C21_Case ==
    /\ last.op = "player_update"
    /\ "Jump" \in last.a.just_pressed
    /\ is_alive(last.result.controller)
    /\ last.result.controller.can_jump
    /\ last.result.controller.on_ground

\* C22: take_damage on a controller that is not invulnerable lowers lives by
\* exactly 1, makes the controller invulnerable with a 2.0 s window, and sets
\* the state to Dead exactly when lives is then <= 0; on an invulnerable
\* controller it changes neither lives nor state.
C22_TakeDamage ==
    last.op = "take_damage" =>
        LET before == last.result.controller
        IN IF ~before.invulnerable
           THEN /\ Controller.lives = before.lives - 1
                /\ Controller.invulnerable
                /\ Controller.invulnerability_time = 2 * Sec
                /\ Controller.state = IF Controller.lives <= 0 THEN "Dead" ELSE before.state
           ELSE /\ Controller.lives = before.lives
                /\ Controller.state = before.state

\* the third hit of a player who was vulnerable again after two earlier hits
C22_Witness ==
    /\ last.op = "take_damage"
    /\ ~last.result.controller.invulnerable
    /\ last.result.controller.lives = 1
    /\ Controller.state = "Dead"

\* a hit inside the invulnerability window, with part of the window used up
C22_WitnessInvulnerable ==
    /\ last.op = "take_damage"
    /\ last.result.controller.invulnerable
    /\ last.result.controller.invulnerability_time < 2 * Sec

\* C23: once the player's state is Dead it stays Dead under every later input
\* update, take_damage and add_coin.
C23_DeadStaysDead ==
    (last.op \in PlayerOps /\ last.result.controller.state = "Dead")
    => Controller.state = "Dead"

\* a dead player's input update with keys pressed, on the ground and in the air
C23_Witness ==
    /\ last.op = "player_update"
    /\ last.result.controller.state = "Dead"
    /\ last.a.pressed # {}
    /\ Controller.state = "Dead"

----------------------------------------------------------------------------
(* badguy: BadguyAI, Badguy and BadguySystem.

   Positions are whole pixels, so that the squares and the square root of
   Vector2::length() are exact in f32 and a comparison of lengths is the
   comparison of their squares.  state_timer is an f32 count of 2^-27 s. *)

BadguyAI_new(move_speed) ==
    [state |-> "Walking",
     move_speed |-> move_speed,
     detection_range |-> Fx(150),
     attack_range |-> Fx(32),
     direction |-> 1,
     state_timer |-> 0,
     patrol_distance |-> Fx(100),
     start_position |-> ZERO]

Badguy_new(badguy_type) ==
    [badguy_type |-> badguy_type,
     damage |-> 1,
     points |-> CASE badguy_type = "Goomba" -> 100
                  [] badguy_type = "Spiky" -> 200
                  [] badguy_type = "Jumpy" -> 150
                  [] badguy_type = "Flying" -> 250,
     can_be_stomped |-> badguy_type \in {"Goomba", "Jumpy"},
     can_be_kicked |-> badguy_type = "Spiky"]

\* the square of (a - b).length()
length2(a, b) == (a.x - b.x) * (a.x - b.x) + (a.y - b.y) * (a.y - b.y)

\* distance_to_player as the square of the length, or INFINITY without a player
distance_to_player(transform, player_position) ==
    IF player_position = <<>> THEN INFINITY ELSE length2(transform, player_position[1])

\* distance < range
closer(d2, range) == d2 # INFINITY /\ d2 < range * range

\* distance > range * 1.5
beyond_half_more(d2, range) ==
    d2 = INFINITY \/ d2 > ((3 * range) \div 2) * ((3 * range) \div 2)

\* the Walking arm of the state match
walking_arm(ai, transform, d2) ==
    IF closer(d2, ai.detection_range)
    THEN [ai EXCEPT !.state = "Chasing", !.state_timer = 0]
    ELSE IF length2(transform, ai.start_position) > ai.patrol_distance * ai.patrol_distance
         THEN [ai EXCEPT !.direction = 0 - ai.direction]
         ELSE ai

\* mutant: the chase is given up at the detection range itself
chasing_arm_no_hysteresis(ai, transform, player_position, d2) ==
    IF player_position = <<>> THEN ai
    ELSE IF ~closer(d2, ai.detection_range) /\ d2 # ai.detection_range * ai.detection_range
         THEN [ai EXCEPT !.state = "Walking", !.state_timer = 0]
         ELSE IF closer(d2, ai.attack_range)
              THEN [ai EXCEPT !.state = "Attacking", !.state_timer = 0]
              ELSE [ai EXCEPT !.direction =
                                  IF player_position[1].x > transform.x THEN 1 ELSE -1]

\* the Chasing arm of the state match
chasing_arm(ai, transform, player_position, d2) ==
    IF player_position = <<>> THEN ai
    ELSE IF beyond_half_more(d2, ai.detection_range)
         THEN [ai EXCEPT !.state = "Walking", !.state_timer = 0]
         ELSE IF closer(d2, ai.attack_range)
              THEN [ai EXCEPT !.state = "Attacking", !.state_timer = 0]
              ELSE [ai EXCEPT !.direction =
                                  IF player_position[1].x > transform.x THEN 1 ELSE -1]

\* mutant: the state is left as soon as the timer reaches the threshold
timed_arm_at_threshold(ai, threshold, target) ==
    IF ai.state_timer >= threshold
    THEN [ai EXCEPT !.state = target, !.state_timer = 0] ELSE ai

\* the Idle, Attacking and Stunned arms of the state match
timed_arm(ai, threshold, target) ==
    IF ai.state_timer > threshold
    THEN [ai EXCEPT !.state = target, !.state_timer = 0] ELSE ai

\* lines 218-272 for a badguy that is not Dead
update_state(ai, transform, player_position) ==
    LET d2 == distance_to_player(transform, player_position)
    IN CASE ai.state = "Idle" -> timed_arm(ai, Sec, "Walking")
         [] ai.state = "Walking" -> walking_arm(ai, transform, d2)
         [] ai.state = "Chasing" -> chasing_arm(ai, transform, player_position, d2)
         [] ai.state = "Attacking" -> timed_arm(ai, Sec \div 2, "Chasing")
         [] ai.state = "Stunned" -> timed_arm(ai, 2 * Sec, "Walking")

\* lines 274-302: the velocity handed to the physics body
apply_state_movement(ai, w, body_id) ==
    IF body_id \notin DOMAIN w.bodies THEN w
    ELSE LET current_velocity == w.bodies[body_id].velocity
         IN CASE ai.state \in {"Walking", "Chasing"} ->
                    world_set_body_velocity(w, body_id,
                        Vec(ai.direction * ai.move_speed, current_velocity.y))
              [] ai.state \in {"Stunned", "Dead"} ->
                    world_set_body_velocity(w, body_id, Vec(0, current_velocity.y))
              [] OTHER -> w

\* does update_badguy return before it touches anything?
skipped(om, badguy_id) ==
    LET object == get_object(om, badguy_id)
    IN \/ object = None
       \/ ~object.active
       \/ ~has_component(object, "Transform")
       \/ ~has_component(object, "PhysicsComponent")
       \/ ~has_component(object, "BadguyAI")

\* [om, w, done]: done lists the badguys whose AI has been run
update_badguy(st, badguy_id, player_position, delta_time) ==
    IF skipped(st.om, badguy_id) THEN st
    ELSE LET object == st.om.objects[badguy_id]
             transform == get_component(object, "Transform").position
             body_id == get_component(object, "PhysicsComponent").body_id
             ai0 == get_component(object, "BadguyAI")
             ai1 == IF ai0.start_position = ZERO
                    THEN [ai0 EXCEPT !.start_position = transform] ELSE ai0
             ai2 == [ai1 EXCEPT !.state_timer = RoundF32(ai1.state_timer + delta_time)]
             ai3 == IF ai2.state = "Dead" THEN ai2
                    ELSE update_state(ai2, transform, player_position)
         IN [om |-> [st.om EXCEPT !.objects[badguy_id].components["BadguyAI"] = ai3],
             w |-> IF ai2.state = "Dead" THEN st.w
                   ELSE apply_state_movement(ai3, st.w, body_id),
             done |-> Append(st.done, badguy_id)]

RECURSIVE update_badguys_until_skip(_, _, _, _, _)
\* mutant: the loop ends at the first badguy that is skipped
update_badguys_until_skip(st, badguy_ids, i, player_position, delta_time) ==
    IF i > Len(badguy_ids) \/ skipped(st.om, badguy_ids[i]) THEN st
    ELSE update_badguys_until_skip(
             update_badguy(st, badguy_ids[i], player_position, delta_time),
             badguy_ids, i + 1, player_position, delta_time)

RECURSIVE update_badguys(_, _, _, _, _)
update_badguys(st, badguy_ids, i, player_position, delta_time) ==
    IF i > Len(badguy_ids) THEN st
    ELSE update_badguys(update_badguy(st, badguy_ids[i], player_position, delta_time),
                        badguy_ids, i + 1, player_position, delta_time)

\* the ids the update collects: the objects that have a Badguy component
badguy_ids_of(om) == {id \in DOMAIN om.objects : has_component(om.objects[id], "Badguy")}

\* the position the update reads for the player: <<>> is None
player_position_of(sys, om) ==
    IF sys.player_id = <<>> THEN <<>>
    ELSE LET obj == get_object(om, sys.player_id[1])
         IN IF obj = None \/ ~has_component(obj, "Transform") THEN <<>>
            ELSE <<get_component(obj, "Transform").position>>

\* BadguySystem::update, the HashMap's keys visited in the order badguy_ids
BadguySystem_update(sys, om, w, delta_time, badguy_ids) ==
    update_badguys([om |-> om, w |-> w, done |-> <<>>], badguy_ids, 1,
                   player_position_of(sys, om), delta_time)

\* mutant: a stomp needs no can_be_stomped
handle_player_collision_stomp_any(om, badguy_id, pid) ==
    IF badguy_id \notin DOMAIN om.objects THEN om
    ELSE LET badguy_obj == om.objects[badguy_id]
             damage == IF has_component(badguy_obj, "Badguy")
                       THEN get_component(badguy_obj, "Badguy").damage ELSE 1
             badguy_pos == position(badguy_obj)
             player_pos == IF pid \in DOMAIN om.objects
                           THEN position(om.objects[pid]) ELSE ZERO
             is_stomping == player_pos.y < badguy_pos.y - Fx(16)
         IN IF is_stomping
            THEN IF has_component(badguy_obj, "BadguyAI")
                 THEN [om EXCEPT !.objects[badguy_id].components["BadguyAI"] =
                                     [@ EXCEPT !.state = "Stunned", !.state_timer = 0]]
                 ELSE om
            ELSE IF pid \in DOMAIN om.objects /\ has_component(om.objects[pid], "Health")
                 THEN [om EXCEPT !.objects[pid].components["Health"] =
                                     Health_take_damage(@, damage)]
                 ELSE om

handle_player_collision(om, badguy_id, pid) ==
    IF badguy_id \notin DOMAIN om.objects THEN om
    ELSE LET badguy_obj == om.objects[badguy_id]
             can_be_stomped == IF has_component(badguy_obj, "Badguy")
                               THEN get_component(badguy_obj, "Badguy").can_be_stomped
                               ELSE FALSE
             damage == IF has_component(badguy_obj, "Badguy")
                       THEN get_component(badguy_obj, "Badguy").damage ELSE 1
             badguy_pos == position(badguy_obj)
             player_pos == IF pid \in DOMAIN om.objects
                           THEN position(om.objects[pid]) ELSE ZERO
             is_stomping == player_pos.y < badguy_pos.y - Fx(16)
         IN IF is_stomping /\ can_be_stomped
            THEN IF has_component(badguy_obj, "BadguyAI")
                 THEN [om EXCEPT !.objects[badguy_id].components["BadguyAI"] =
                                     [@ EXCEPT !.state = "Stunned", !.state_timer = 0]]
                 ELSE om
            ELSE IF pid \in DOMAIN om.objects /\ has_component(om.objects[pid], "Health")
                 THEN [om EXCEPT !.objects[pid].components["Health"] =
                                     Health_take_damage(@, damage)]
                 ELSE om

\* factory::create_goomba, create_spiky and create_flying
create_badguy(om, w, nid, kind, pos) ==
    LET r == create_physics_object(om, w, nid, kind, pos, Vec(Fx(32), Fx(32)),
                                   IF kind = "Flying" THEN "Kinematic" ELSE "Dynamic",
                                   "Enemy")
        ai == BadguyAI_new(CASE kind = "Goomba" -> Fx(50)
                             [] kind = "Spiky" -> Fx(75)
                             [] kind = "Flying" -> Fx(100))
        o1 == add_component(r.om.objects[r.id], "SpriteComponent", SpriteComponent_new)
        o2 == add_component(o1, "Badguy", Badguy_new(kind))
        o3 == add_component(o2, "BadguyAI",
                            IF kind = "Flying"
                            THEN [ai EXCEPT !.patrol_distance = Fx(200)] ELSE ai)
        o4 == add_component(o3, "Health", Health_new(IF kind = "Spiky" THEN 2 ELSE 1))
    IN [r EXCEPT !.om.objects[r.id] = [o4 EXCEPT !.tag = "badguy"]]

\* GameObject::set_position
object_set_position(obj, pos) ==
    IF has_component(obj, "Transform")
    THEN [obj EXCEPT !.components["Transform"].position = pos] ELSE obj

----------------------------------------------------------------------------
(* One badguy and one player under the BadguySystem.  An update is taken
   only while the badguy's state_timer stays within MaxTimerSecs seconds. *)

MaxTimerSecs == 3   \* largest state_timer, in seconds

BadguyStart == Vec(Fx(300), Fx(200))

\* distances from BadguyStart: 17 (above by 17), 16 (above by 16),
\* 150 (90 and 120), 200, 225 (135 and 180), 300
TuxPositions ==
    {Vec(Fx(300), Fx(183)), Vec(Fx(300), Fx(184)), Vec(Fx(210), Fx(80)),
     Vec(Fx(100), Fx(200)), Vec(Fx(165), Fx(20)), Vec(Fx(0), Fx(200))}

\* above the badguy by 17 and by 16: within attack_range, stomping and not
StompPositions == {Vec(Fx(300), Fx(183)), Vec(Fx(300), Fx(184))}

BadguyKinds == {"Goomba", "Spiky"}

\* f32(1/6) = 11184811 * 2^-26; three of them make 0.5 after rounding
SixthSec == 22369622

BadguyDts == {SixthSec, Sec}

ChaseDts == {Sec}

\* the states only a write to the public field BadguyAI::state produces
WrittenStates == {"Idle", "Dead"}

BodyVelocities == {Vec(Fx(30), Fx(-200))}

TuxIds == {id \in DOMAIN object_manager.objects : object_manager.objects[id].tag = "player"}

BadguyObjIds == badguy_ids_of(object_manager)

AIOf(om, id) == get_component(om.objects[id], "BadguyAI")

BodyOf(om, b, id) == b[get_component(om.objects[id], "PhysicsComponent").body_id]

\* what update and handle_player_collision record: the state before the call
Snapshot == [om |-> object_manager, bodies |-> bodies, sys |-> badguy_system]

BadguyCreate ==
    \E kind \in BadguyKinds :
        LET r == create_badguy(OM, W, next_id, kind, BadguyStart)
        IN /\ BadguyObjIds = {}
           /\ next_id <= MaxBodies
           /\ object_manager' = r.om
           /\ SetW(r.w)
           /\ next_id' = next_id + 1
           /\ added' = Put(added, next_id, r.w.bodies[next_id])
           /\ last' = Last("create_badguy")
           /\ UNCHANGED <<engine, badguy_system, layer_matrix, accumulator, paused, removed,
                          steps, fed, ops>>

CreateTux(positions) ==
    \E pos \in positions :
        LET r == create_player(OM, W, next_id, pos)
        IN /\ TuxIds = {}
           /\ BadguyObjIds # {}
           /\ next_id <= MaxBodies
           /\ object_manager' = r.om
           /\ SetW(r.w)
           /\ next_id' = next_id + 1
           /\ added' = Put(added, next_id, r.w.bodies[next_id])
           /\ last' = Last("create_player")
           /\ UNCHANGED <<engine, badguy_system, layer_matrix, accumulator, paused, removed,
                          steps, fed, ops>>

BadguySetPlayerId ==
    \E id \in TuxIds :
        /\ badguy_system.player_id = <<>>
        /\ badguy_system' = [badguy_system EXCEPT !.player_id = <<id>>]
        /\ last' = [Last("set_player_id") EXCEPT !.id = id]
        /\ UNCHANGED <<engine, object_manager, objects, cells, cs_next_id, layer_matrix, bodies,
                       next_id, accumulator, paused, removed, added, steps, fed, ops>>

\* set_position on the player's object
MoveTux(positions) ==
    \E id \in TuxIds, pos \in positions :
        /\ object_manager' = [OM EXCEPT !.objects[id] = object_set_position(@, pos)]
        /\ last' = [Last("set_position") EXCEPT !.id = id]
        /\ UNCHANGED <<engine, badguy_system, objects, cells, cs_next_id, layer_matrix, bodies,
                       next_id, accumulator, paused, removed, added, steps, fed, ops>>

\* physics_world.set_body_velocity on the badguy's body
BadguyWriteVelocity ==
    \E id \in BadguyObjIds, velocity \in BodyVelocities :
        /\ SetW(world_set_body_velocity(
                    W, get_component(OM.objects[id], "PhysicsComponent").body_id, velocity))
        /\ last' = [Last("set_body_velocity") EXCEPT !.id = id]
        /\ UNCHANGED <<engine, badguy_system, object_manager, layer_matrix, next_id, accumulator,
                       paused, removed, added, steps, fed, ops>>

\* get_component_mut::<BadguyAI>(): ai.state = s; ai.state_timer = 0.0
BadguyWriteState ==
    \E id \in BadguyObjIds, s \in WrittenStates :
        /\ object_manager' = [OM EXCEPT !.objects[id].components["BadguyAI"] =
                                            [@ EXCEPT !.state = s, !.state_timer = 0]]
        /\ last' = [Last("write_state") EXCEPT !.id = id]
        /\ UNCHANGED <<engine, badguy_system, objects, cells, cs_next_id, layer_matrix, bodies,
                       next_id, accumulator, paused, removed, added, steps, fed, ops>>

\* get_component_mut::<Health>() on the player: invulnerable = true for 2.0 s
BadguyWriteInvulnerable ==
    \E pid \in TuxIds :
        /\ ~get_component(OM.objects[pid], "Health").invulnerable
        /\ object_manager' = [OM EXCEPT !.objects[pid].components["Health"] =
                                            [@ EXCEPT !.invulnerable = TRUE,
                                                      !.invulnerability_time = 2 * Sec]]
        /\ last' = [Last("write_invulnerable") EXCEPT !.id = pid]
        /\ UNCHANGED <<engine, badguy_system, objects, cells, cs_next_id, layer_matrix, bodies,
                       next_id, accumulator, paused, removed, added, steps, fed, ops>>

SystemUpdate(dts) ==
    \E delta_time \in dts, badguy_ids \in Orders(BadguyObjIds) :
        LET r == BadguySystem_update(badguy_system, OM, W, delta_time, badguy_ids)
        IN /\ \A id \in BadguyObjIds :
                  has_component(r.om.objects[id], "BadguyAI")
                  => AIOf(OM, id).state_timer + delta_time <= MaxTimerSecs * Sec
           /\ object_manager' = r.om
           /\ SetW(r.w)
           /\ last' = [Last("badguy_update") EXCEPT !.dt = delta_time, !.a = badguy_ids,
                                                     !.trace = r.done, !.result = Snapshot]
           /\ UNCHANGED <<engine, badguy_system, layer_matrix, next_id, accumulator, paused,
                          removed, added, steps, fed, ops>>

BadguyCollision ==
    \E id \in BadguyObjIds, pid \in TuxIds :
        /\ object_manager' = handle_player_collision(OM, id, pid)
        /\ last' = [Last("handle_player_collision") EXCEPT !.id = id, !.a = pid,
                                                            !.result = Snapshot]
        /\ UNCHANGED <<engine, badguy_system, objects, cells, cs_next_id, layer_matrix, bodies,
                       next_id, accumulator, paused, removed, added, steps, fed, ops>>

BadguyCreateTux == CreateTux(StompPositions)

BadguyMoveTux == MoveTux(StompPositions)

BadguyUpdate == SystemUpdate(BadguyDts)

BadguyNext ==
    \/ BadguyCreate
    \/ BadguyCreateTux
    \/ BadguySetPlayerId
    \/ BadguyMoveTux
    \/ BadguyWriteVelocity
    \/ BadguyWriteState
    \/ BadguyWriteInvulnerable
    \/ BadguyUpdate
    \/ BadguyCollision

BadguySpec == WorldInit /\ [][BadguyNext]_vars

ChaseCreateTux == CreateTux(TuxPositions)

ChaseMoveTux == MoveTux(TuxPositions)

ChaseUpdate == SystemUpdate(ChaseDts)

ChaseNext ==
    \/ BadguyCreate
    \/ ChaseCreateTux
    \/ BadguySetPlayerId
    \/ ChaseMoveTux
    \/ ChaseUpdate

ChaseSpec == WorldInit /\ [][ChaseNext]_vars

\* the badguys the most recent update ran the AI of
Updated == {last.trace[i] : i \in DOMAIN last.trace}

\* the square of the distance the most recent update measured for badguy b
Distance2(b) ==
    length2(position(last.result.om.objects[b]),
            player_position_of(last.result.sys, last.result.om)[1])

PlayerPresent == player_position_of(last.result.sys, last.result.om) # <<>>

\* C24: with a player present, an AI update turns a Walking badguy into Chasing
\* iff the distance to the player is below detection_range (150), turns a
\* Chasing badguy into Walking iff the distance is above 1.5 * detection_range
\* (225), and for a distance between the two thresholds keeps whichever of the
\* two states the badguy is in.
C24_ChaseHysteresis ==
    (last.op = "badguy_update" /\ PlayerPresent) =>
        \A b \in Updated :
            LET pre == AIOf(last.result.om, b)
                post == AIOf(object_manager, b)
                near == pre.detection_range * pre.detection_range
                far == ((3 * pre.detection_range) \div 2) * ((3 * pre.detection_range) \div 2)
            IN /\ pre.state = "Walking" => (post.state = "Chasing" <=> Distance2(b) < near)
               /\ pre.state = "Chasing" => (post.state = "Walking" <=> Distance2(b) > far)
               /\ (pre.state \in {"Walking", "Chasing"}
                     /\ Distance2(b) >= near /\ Distance2(b) <= far)
                  => post.state = pre.state

\* a Chasing badguy at exactly 225 from the player keeps chasing
C24_Witness ==
    /\ last.op = "badguy_update"
    /\ PlayerPresent
    /\ \E b \in Updated :
          /\ AIOf(last.result.om, b).state = "Chasing"
          /\ Distance2(b) = Fx(225) * Fx(225)
          /\ AIOf(object_manager, b).state = "Chasing"

\* a Chasing badguy further than 225 from the player goes back to Walking
C24_WitnessLost ==
    /\ last.op = "badguy_update"
    /\ PlayerPresent
    /\ \E b \in Updated :
          /\ AIOf(last.result.om, b).state = "Chasing"
          /\ Distance2(b) > Fx(225) * Fx(225)
          /\ AIOf(object_manager, b).state = "Walking"

\* a Walking badguy at exactly 150 from the player keeps walking
C24_WitnessEdge ==
    /\ last.op = "badguy_update"
    /\ PlayerPresent
    /\ \E b \in Updated :
          /\ AIOf(last.result.om, b).state = "Walking"
          /\ Distance2(b) = Fx(150) * Fx(150)
          /\ AIOf(object_manager, b).state = "Walking"

\* the time a badguy spends in a timed state, and the state that follows it
Threshold(s) == CASE s = "Attacking" -> Sec \div 2
                  [] s = "Stunned" -> 2 * Sec
                  [] s = "Idle" -> Sec

Follows(s) == IF s = "Attacking" THEN "Chasing" ELSE "Walking"

TimedStates == {"Attacking", "Stunned", "Idle"}

\* C25: a badguy that enters Attacking, Stunned or Idle with timer 0 stays in
\* that state until the delta times accumulated since (the f32 state_timer)
\* exceed 0.5 s, 2.0 s and 1.0 s respectively, and on the first update at which
\* they do it moves to Chasing, Walking and Walking respectively with the timer
\* reset to 0.  A timed state is always entered with timer 0.
C25_TimedStates ==
    /\ last.op = "badguy_update" =>
           \A b \in Updated :
               LET pre == AIOf(last.result.om, b)
                   post == AIOf(object_manager, b)
                   timer == RoundF32(pre.state_timer + last.dt)
               IN pre.state \in TimedStates =>
                      IF timer > Threshold(pre.state)
                      THEN post.state = Follows(pre.state) /\ post.state_timer = 0
                      ELSE post.state = pre.state /\ post.state_timer = timer
    /\ last.op \in {"badguy_update", "handle_player_collision"} =>
           \A b \in BadguyObjIds :
               LET pre == AIOf(last.result.om, b)
                   post == AIOf(object_manager, b)
               IN (post.state \in TimedStates /\ post.state # pre.state)
                  => post.state_timer = 0

\* three updates of f32(1/6) s leave the timer at exactly 0.5 s: still Attacking
C25_Witness ==
    /\ last.op = "badguy_update"
    /\ \E b \in Updated :
          /\ AIOf(last.result.om, b).state = "Attacking"
          /\ AIOf(last.result.om, b).state_timer = 2 * SixthSec
          /\ last.dt = SixthSec
          /\ AIOf(object_manager, b).state = "Attacking"
          /\ AIOf(object_manager, b).state_timer = Sec \div 2

\* each timed state is left for the state that follows it
C25_WitnessLeft ==
    /\ last.op = "badguy_update"
    /\ \E b \in Updated :
          /\ AIOf(last.result.om, b).state = "Stunned"
          /\ AIOf(last.result.om, b).state_timer = 2 * Sec
          /\ AIOf(object_manager, b).state = "Walking"

C25_WitnessIdle ==
    /\ last.op = "badguy_update"
    /\ \E b \in Updated :
          /\ AIOf(last.result.om, b).state = "Idle"
          /\ AIOf(last.result.om, b).state_timer = Sec
          /\ AIOf(object_manager, b).state = "Walking"

C25_WitnessAttack ==
    /\ last.op = "badguy_update"
    /\ \E b \in Updated :
          /\ AIOf(last.result.om, b).state = "Attacking"
          /\ AIOf(last.result.om, b).state_timer = Sec \div 2
          /\ AIOf(object_manager, b).state = "Chasing"

\* C26: once a badguy's AI state is Dead it remains Dead under every later AI
\* update and handle_player_collision.
C26_DeadStaysDead ==
    last.op \in {"badguy_update", "handle_player_collision"} =>
        \A b \in BadguyObjIds :
            AIOf(last.result.om, b).state = "Dead" => AIOf(object_manager, b).state = "Dead"

\* a collision with a Dead badguy that can be stomped, the player above it
C26_Case ==
    /\ last.op = "handle_player_collision"
    /\ AIOf(last.result.om, last.id).state = "Dead"
    /\ get_component(object_manager.objects[last.id], "Badguy").can_be_stomped
    /\ position(object_manager.objects[last.a]).y
           < position(object_manager.objects[last.id]).y - Fx(16)

\* C27: after an AI update of an active badguy whose body exists and is not
\* Static, the body's horizontal velocity is direction * move_speed when the
\* state is Walking or Chasing and 0 when it is Stunned or Dead; in all four
\* states the vertical velocity is what it was before the update.
C27_VelocityByState ==
    last.op = "badguy_update" =>
        \A b \in Updated :
            LET post == AIOf(object_manager, b)
                before == BodyOf(last.result.om, last.result.bodies, b)
                body == BodyOf(object_manager, bodies, b)
            IN body.body_type # "Static" =>
                  /\ post.state \in {"Walking", "Chasing"}
                        => body.velocity.x = post.direction * post.move_speed
                  /\ post.state \in {"Stunned", "Dead"} => body.velocity.x = 0
                  /\ post.state \in {"Walking", "Chasing", "Stunned", "Dead"}
                        => body.velocity.y = before.velocity.y

\* the same for the states whose movement arm is reached
C27_VelocityWhenAlive ==
    last.op = "badguy_update" =>
        \A b \in Updated :
            LET post == AIOf(object_manager, b)
                before == BodyOf(last.result.om, last.result.bodies, b)
                body == BodyOf(object_manager, bodies, b)
            IN body.body_type # "Static" =>
                  /\ post.state \in {"Walking", "Chasing"}
                        => body.velocity.x = post.direction * post.move_speed
                  /\ post.state = "Stunned" => body.velocity.x = 0
                  /\ post.state = "Dead" => body.velocity.x = before.velocity.x
                  /\ post.state \in {"Walking", "Chasing", "Stunned", "Dead"}
                        => body.velocity.y = before.velocity.y

\* the player is above the badguy by more than 16 in the state before the call
IsStomping ==
    position(last.result.om.objects[last.a]).y
        < position(last.result.om.objects[last.id]).y - Fx(16)

TuxHealth(om) == get_component(om.objects[last.a], "Health")

\* C28: handle_player_collision has exactly one of two effects.  If the player's
\* y is smaller than the badguy's y by more than 16 and the badguy can be
\* stomped, the AI becomes Stunned with timer 0 and the player's Health is
\* unchanged; otherwise the AI state is unchanged and the player's
\* Health.current drops by the badguy's damage, not below 0, unless the Health
\* is invulnerable.
C28_StompOrDamage ==
    last.op = "handle_player_collision" =>
        LET pre == AIOf(last.result.om, last.id)
            post == AIOf(object_manager, last.id)
            badguy == get_component(last.result.om.objects[last.id], "Badguy")
            health == TuxHealth(last.result.om)
        IN IF IsStomping /\ badguy.can_be_stomped
           THEN /\ post.state = "Stunned"
                /\ post.state_timer = 0
                /\ TuxHealth(object_manager) = health
           ELSE /\ post = pre
                /\ TuxHealth(object_manager) =
                       IF health.invulnerable THEN health
                       ELSE [health EXCEPT !.current = Max(health.current - badguy.damage, 0)]

\* the player 17 above a Spiky: no stomp, the player loses its one health point
C28_Witness ==
    /\ last.op = "handle_player_collision"
    /\ IsStomping
    /\ ~get_component(object_manager.objects[last.id], "Badguy").can_be_stomped
    /\ TuxHealth(last.result.om).current = 1
    /\ TuxHealth(object_manager).current = 0

\* a stomp on a chasing Goomba
C28_WitnessStomp ==
    /\ last.op = "handle_player_collision"
    /\ IsStomping
    /\ AIOf(last.result.om, last.id).state = "Chasing"
    /\ AIOf(object_manager, last.id).state = "Stunned"

\* the player exactly 16 above, invulnerable: nothing changes
C28_WitnessInvulnerable ==
    /\ last.op = "handle_player_collision"
    /\ ~IsStomping
    /\ TuxHealth(last.result.om).invulnerable
    /\ TuxHealth(last.result.om).current = 1

\* a hit on a player whose health is already 0
C28_WitnessFloor ==
    /\ last.op = "handle_player_collision"
    /\ ~TuxHealth(last.result.om).invulnerable
    /\ TuxHealth(last.result.om).current = 0
    /\ AIOf(object_manager, last.id) = AIOf(last.result.om, last.id)

----------------------------------------------------------------------------
(* The component store of GameObject: objects made by create_object, and
   add_component / remove_component calls on them *)

MaxEntities == 2    \* create_object calls per behaviour

\* a component type and a value of it
ComponentInputs ==
    {<<"Transform", Transform_new(ZERO)>>,
     <<"Transform", Transform_new(Vec(Fx(8), Fx(0)))>>,
     <<"Health", Health_new(1)>>,
     <<"Health", Health_new(2)>>,
     <<"Badguy", Badguy_new("Goomba")>>}

ComponentKinds == {c[1] : c \in ComponentInputs}

ComponentCreateObject ==
    /\ object_manager.next_id <= MaxEntities
    /\ object_manager' = create_object(OM, "Object")
    /\ last' = [Last("create_object") EXCEPT !.id = object_manager.next_id]
    /\ UNCHANGED <<engine, badguy_system, objects, cells, cs_next_id, layer_matrix, bodies,
                   next_id, accumulator, paused, removed, added, steps, fed, ops>>

ComponentAdd ==
    \E id \in DOMAIN object_manager.objects, c \in ComponentInputs :
        /\ object_manager' = [OM EXCEPT !.objects[id] = add_component(@, c[1], c[2])]
        /\ last' = [Last("add_component") EXCEPT !.id = id, !.a = c,
                                                  !.result = object_manager]
        /\ UNCHANGED <<engine, badguy_system, objects, cells, cs_next_id, layer_matrix, bodies,
                       next_id, accumulator, paused, removed, added, steps, fed, ops>>

ComponentRemove ==
    \E id \in DOMAIN object_manager.objects, kind \in ComponentKinds :
        /\ object_manager' = [OM EXCEPT !.objects[id] = remove_component(@, kind)]
        /\ last' = [Last("remove_component") EXCEPT !.id = id, !.a = <<kind>>,
                                                     !.result = object_manager]
        /\ UNCHANGED <<engine, badguy_system, objects, cells, cs_next_id, layer_matrix, bodies,
                       next_id, accumulator, paused, removed, added, steps, fed, ops>>

ComponentNext ==
    \/ ComponentCreateObject
    \/ ComponentAdd
    \/ ComponentRemove

ComponentSpec == WorldInit /\ [][ComponentNext]_vars

\* the object of the most recent call, after it and before it
Target == object_manager.objects[last.id]

TargetBefore == last.result.objects[last.id]

\* C29: the component store of an entity is a map from component type to one
\* value.  After add_component(v), get_component of that type returns v, also
\* when the type was present with another value; after remove_component,
\* get_component returns None and has_component is false; and neither call
\* changes what get_component and has_component say about any other type, or
\* about any other object.
C29_StoreIsMap ==
    /\ last.op = "add_component" =>
           /\ get_component(Target, last.a[1]) = last.a[2]
           /\ has_component(Target, last.a[1])
    /\ last.op = "remove_component" =>
           /\ get_component(Target, last.a[1]) = None
           /\ ~has_component(Target, last.a[1])
    /\ last.op \in {"add_component", "remove_component"} =>
           /\ \A kind \in ComponentKinds \ {last.a[1]} :
                  /\ get_component(Target, kind) = get_component(TargetBefore, kind)
                  /\ has_component(Target, kind) = has_component(TargetBefore, kind)
           /\ \A id \in DOMAIN object_manager.objects \ {last.id} :
                  object_manager.objects[id] = last.result.objects[id]

\* a second add_component of a type replaces the value the first one stored,
\* on an object that holds another type as well
C29_Witness ==
    /\ last.op = "add_component"
    /\ has_component(TargetBefore, last.a[1])
    /\ get_component(TargetBefore, last.a[1]) # last.a[2]
    /\ get_component(Target, last.a[1]) = last.a[2]
    /\ \E kind \in ComponentKinds \ {last.a[1]} : has_component(Target, kind)

\* a remove_component of a type the object holds, next to another type
C29_WitnessRemove ==
    /\ last.op = "remove_component"
    /\ has_component(TargetBefore, last.a[1])
    /\ ~has_component(Target, last.a[1])
    /\ \E kind \in ComponentKinds \ {last.a[1]} : has_component(Target, kind)

----------------------------------------------------------------------------
(* BadguySystem::update over several badguys, some of which update_badguy
   returns early on *)

SkipDts == {Sec}

\* the components update_badguy needs
NeededKinds == {"Transform", "PhysicsComponent", "BadguyAI"}

\* a further badguy, while the physics world hands out ids
SkipCreate ==
    \E kind \in BadguyKinds :
        LET r == create_badguy(OM, W, next_id, kind, BadguyStart)
        IN /\ next_id <= MaxBodies
           /\ object_manager' = r.om
           /\ SetW(r.w)
           /\ next_id' = next_id + 1
           /\ added' = Put(added, next_id, r.w.bodies[next_id])
           /\ last' = Last("create_badguy")
           /\ UNCHANGED <<engine, badguy_system, layer_matrix, accumulator, paused, removed,
                          steps, fed, ops>>

\* get_object_mut(id): object.active = false
SkipDeactivate ==
    \E id \in BadguyObjIds :
        /\ OM.objects[id].active
        /\ object_manager' = [OM EXCEPT !.objects[id].active = FALSE]
        /\ last' = [Last("deactivate") EXCEPT !.id = id]
        /\ UNCHANGED <<engine, badguy_system, objects, cells, cs_next_id, layer_matrix, bodies,
                       next_id, accumulator, paused, removed, added, steps, fed, ops>>

\* get_object_mut(id): object.remove_component::<T>()
SkipRemoveComponent ==
    \E id \in BadguyObjIds, kind \in NeededKinds :
        /\ has_component(OM.objects[id], kind)
        /\ object_manager' = [OM EXCEPT !.objects[id] = remove_component(@, kind)]
        /\ last' = [Last("remove_component") EXCEPT !.id = id, !.a = <<kind>>]
        /\ UNCHANGED <<engine, badguy_system, objects, cells, cs_next_id, layer_matrix, bodies,
                       next_id, accumulator, paused, removed, added, steps, fed, ops>>

\* physics_world.set_body_velocity on any body
SkipWriteVelocity ==
    \E body_id \in DOMAIN bodies, velocity \in BodyVelocities :
        /\ bodies[body_id].velocity # velocity
        /\ SetW(world_set_body_velocity(W, body_id, velocity))
        /\ last' = [Last("set_body_velocity") EXCEPT !.id = body_id]
        /\ UNCHANGED <<engine, badguy_system, object_manager, layer_matrix, next_id, accumulator,
                       paused, removed, added, steps, fed, ops>>

SkipUpdate == SystemUpdate(SkipDts)

SkipNext ==
    \/ SkipCreate
    \/ SkipDeactivate
    \/ SkipRemoveComponent
    \/ SkipWriteVelocity
    \/ SkipUpdate

SkipSpec == WorldInit /\ [][SkipNext]_vars

\* the badguys the most recent update collected, and those of them that
\* update_badguy returned early on
Collected == badguy_ids_of(last.result.om)

Skipped == {b \in Collected : skipped(last.result.om, b)}

\* how often badguy b occurs among the badguys whose AI was run
TimesUpdated(b) == Cardinality({i \in DOMAIN last.trace : last.trace[i] = b})

\* one update_badguy call for b alone on the state before the update
UpdatedAlone(b) ==
    update_badguy([om |-> last.result.om,
                   w |-> [W EXCEPT !.bodies = last.result.bodies],
                   done |-> <<>>],
                  b, player_position_of(last.result.sys, last.result.om), last.dt)

\* the ids of the bodies of the badguys that were not skipped
UpdatedBodies ==
    {get_component(last.result.om.objects[b], "PhysicsComponent").body_id :
         b \in Collected \ Skipped}

\* C30: in an update of the BadguySystem, a badguy that is inactive or lacks
\* its Transform, PhysicsComponent or BadguyAI is skipped: its entity is as
\* before and no physics body changes on its account (only the bodies of the
\* badguys that are not skipped may differ).  Every other badguy present at
\* the start is updated exactly once: its entity and its body are what one
\* update_badguy call makes of them.
C30_SkipLeavesRestUpdated ==
    last.op = "badguy_update" =>
        /\ \A b \in Skipped :
               /\ object_manager.objects[b] = last.result.om.objects[b]
               /\ TimesUpdated(b) = 0
        /\ \A b \in Collected \ Skipped :
               /\ TimesUpdated(b) = 1
               /\ object_manager.objects[b] = UpdatedAlone(b).om.objects[b]
               /\ BodyOf(object_manager, bodies, b) =
                      BodyOf(last.result.om, UpdatedAlone(b).w.bodies, b)
        /\ DOMAIN object_manager.objects = DOMAIN last.result.om.objects
        /\ DOMAIN bodies = DOMAIN last.result.bodies
        /\ \A id \in DOMAIN bodies \ UpdatedBodies : bodies[id] = last.result.bodies[id]

\* an update that visits a skipped badguy first and then runs the AI of
\* another one, whose timer and body velocity it changes
C30_Witness ==
    /\ last.op = "badguy_update"
    /\ Len(last.a) = 2
    /\ last.a[1] \in Skipped
    /\ last.a[2] \notin Skipped
    /\ AIOf(object_manager, last.a[2]).state_timer
           # AIOf(last.result.om, last.a[2]).state_timer
    /\ BodyOf(object_manager, bodies, last.a[2])
           # BodyOf(last.result.om, last.result.bodies, last.a[2])
    /\ has_component(last.result.om.objects[last.a[1]], "PhysicsComponent")
    /\ BodyOf(last.result.om, last.result.bodies, last.a[1]).velocity # ZERO

\* each way of being skipped occurs next to an updated badguy
C30_WitnessInactive ==
    /\ last.op = "badguy_update"
    /\ \E b \in Skipped : ~last.result.om.objects[b].active
    /\ Collected \ Skipped # {}

C30_WitnessNoTransform ==
    /\ last.op = "badguy_update"
    /\ \E b \in Skipped : /\ last.result.om.objects[b].active
                          /\ ~has_component(last.result.om.objects[b], "Transform")
    /\ Collected \ Skipped # {}

C30_WitnessNoPhysics ==
    /\ last.op = "badguy_update"
    /\ \E b \in Skipped : /\ last.result.om.objects[b].active
                          /\ ~has_component(last.result.om.objects[b], "PhysicsComponent")
                          /\ has_component(last.result.om.objects[b], "Transform")
    /\ Collected \ Skipped # {}

C30_WitnessNoAI ==
    /\ last.op = "badguy_update"
    /\ \E b \in Skipped :
           /\ last.result.om.objects[b].active
           /\ NeededKinds \ DOMAIN last.result.om.objects[b].components = {"BadguyAI"}
    /\ Collected \ Skipped # {}

----------------------------------------------------------------------------
(* Rect::intersects and Rect::intersection on pairs of rectangles *)

\* rectangles of non-negative size: apart, touching at an edge and at a
\* corner, overlapping, nested, equal, and of zero width or height
RectInputs ==
    {Rect(Fx(0), Fx(0), Fx(32), Fx(32)),
     Rect(Fx(32), Fx(0), Fx(32), Fx(32)),
     Rect(Fx(32), Fx(32), Fx(16), Fx(16)),
     Rect(Fx(16), Fx(16), Fx(32), Fx(32)),
     Rect(Fx(-16), Fx(8), Fx(64), Fx(8)),
     Rect(Fx(8), Fx(-16), Fx(8), Fx(64)),
     Rect(Fx(4), Fx(4), Fx(8), Fx(8)),
     Rect(Fx(-40), Fx(-40), Fx(200), Fx(200)),
     Rect(Fx(100), Fx(100), Fx(10), Fx(10)),
     Rect(Fx(16), Fx(16), 0, 0),
     Rect(Fx(0), Fx(16), Fx(32), 0),
     Rect(Fx(16), Fx(0), 0, Fx(32)),
     Rect(Fx(20), Fx(20), Fx(1), Fx(1))}

\* a.intersects(&b), b.intersects(&a), a.intersection(&b), b.intersection(&a)
RectIntersect ==
    \E a \in RectInputs, b \in RectInputs :
        /\ last' = [Last("intersection") EXCEPT
                        !.a = <<a, b>>,
                        !.result = [hits |-> intersects(a, b),
                                    hits_back |-> intersects(b, a),
                                    common |-> intersection(a, b),
                                    common_back |-> intersection(b, a)]]
        /\ UNCHANGED <<engine, badguy_system, object_manager, objects, cells, cs_next_id,
                       layer_matrix, bodies, next_id, accumulator, paused, removed,
                       added, steps, fed, ops>>

RectNext == RectIntersect

RectSpec == GridInit /\ [][RectNext]_vars

\* C31: for rectangles a and b of non-negative width and height,
\* intersects(a, b) = intersects(b, a); intersection(a, b) is None exactly
\* when intersects(a, b) is false; and an intersection that is defined is the
\* same for (a, b) and (b, a) and has width >= 0 and height >= 0.
C31_IntersectionSymmetric ==
    last.op = "intersection" =>
        /\ last.result.hits = last.result.hits_back
        /\ (last.result.common = {}) = ~last.result.hits
        /\ last.result.common = last.result.common_back
        /\ \A r \in last.result.common : r.width >= 0 /\ r.height >= 0

\* two different rectangles that overlap in a proper part of each
C31_Witness ==
    /\ last.op = "intersection"
    /\ last.result.hits
    /\ \E r \in last.result.common :
           /\ r # last.a[1] /\ r # last.a[2]
           /\ r.width > 0 /\ r.height > 0

\* rectangles that only touch have no intersection
C31_WitnessTouching ==
    /\ last.op = "intersection"
    /\ right(last.a[1]) = left(last.a[2])
    /\ top(last.a[1]) = top(last.a[2])
    /\ last.result.common = {}

\* a rectangle of zero size inside another one: an intersection of zero size
C31_WitnessEmptyRect ==
    /\ last.op = "intersection"
    /\ \E r \in last.result.common : r.width = 0 /\ r.height = 0

----------------------------------------------------------------------------
(* The layer of a created entity: PhysicsComponent against collision system *)

\* the collision object the most recent add_body registered
Registered == objects[cs_next_id - 1]

PlayerPhysics == get_component(object_manager.objects[player_id], "PhysicsComponent")

\* C32: for an entity made by create_player, the collision layer recorded
\* in its PhysicsComponent is the layer of the collision object add_body
\* registered for its body (and of the body itself), so that the entity's
\* body interacts with World-layer bodies whenever its recorded layer does.
C32_ComponentLayerIsRegistered ==
    last.op = "create_player" =>
        /\ Registered.layer = PlayerPhysics.collision_layer
        /\ bodies[PlayerPhysics.body_id].collision_layer = PlayerPhysics.collision_layer
        /\ layers_interact(PlayerPhysics.collision_layer, "World")
               => layers_interact(Registered.layer, "World")

\* what the code does instead: the body of a created player is registered
\* under World, the layer PhysicsBody::new gives every body, while the
\* component records Player
C32_RegisteredUnderWorld ==
    last.op = "create_player" =>
        /\ Registered.layer = "World"
        /\ Registered.rect = get_rect(bodies[PlayerPhysics.body_id])
        /\ PlayerPhysics.collision_layer = "Player"
        /\ ~layers_interact(Registered.layer, "World")

C32_Case == last.op = "create_player" /\ PlayerPhysics.body_id \in DOMAIN bodies

----------------------------------------------------------------------------
(* Bodies and the collision objects add_body registers for them, in a world
   whose collision system is also written through collision_system_mut().
   In this specification last.result is [own |-> for every body added so
   far, the id under which add_body registered its collision object,
   objects |-> the collision objects before the most recent call]. *)

Own == IF last.result = <<>> THEN <<>> ELSE last.result.own

Owned == {Own[b] : b \in DOMAIN Own}

\* collision_system_mut().add_object(rect, World, Platform)
OwnAddObject ==
    /\ cs_next_id - next_id < MaxDirect
    /\ SetCS(cs_add_object(CS, DirectRect, "World", "Platform"))
    /\ last' = [Last("add_object") EXCEPT
                   !.id = cs_next_id, !.result = [own |-> Own, objects |-> objects]]
    /\ UNCHANGED <<engine, badguy_system, object_manager, layer_matrix, removed>>
    /\ WorldUnchanged

\* collision_system_mut().remove_object(id) of an object registered directly
OwnRemoveObject ==
    \E id \in DOMAIN objects \ Owned :
        /\ SetCS(cs_remove_object(CS, id))
        /\ last' = [Last("remove_object") EXCEPT
                       !.id = id, !.result = [own |-> Own, objects |-> objects]]
        /\ UNCHANGED <<engine, badguy_system, object_manager, layer_matrix, removed>>
        /\ WorldUnchanged

OwnAddBody ==
    \E body \in BodyInputs :
        /\ next_id <= MaxBodies
        /\ SetW(world_add_body(W, next_id, body))
        /\ next_id' = next_id + 1
        /\ added' = Put(added, next_id, [body EXCEPT !.id = next_id])
        /\ last' = [Last("add_body") EXCEPT
                       !.id = next_id,
                       !.result = [own |-> Put(Own, next_id, cs_next_id),
                                   objects |-> objects]]
        /\ UNCHANGED <<engine, badguy_system, object_manager, layer_matrix, accumulator,
                       paused, removed, steps, fed, ops>>

OwnRemoveBody ==
    \E id \in DOMAIN bodies :
        /\ SetW(world_remove_body(W, id))
        /\ removed' = removed \cup {id}
        /\ last' = [Last("remove_body") EXCEPT
                       !.id = id, !.result = [own |-> Own, objects |-> objects]]
        /\ UNCHANGED <<engine, badguy_system, object_manager, layer_matrix, next_id,
                       accumulator, paused, added, steps, fed, ops>>

OwnUpdate ==
    \E delta_time \in WorldDts, body_ids \in Orders(DOMAIN bodies) :
        LET r == world_update(W, accumulator, delta_time, body_ids)
        IN /\ steps + r.n <= MaxSteps
           /\ SetW(r.w)
           /\ accumulator' = r.accumulator
           /\ steps' = steps + r.n
           /\ fed' = fed + delta_time
           /\ last' = [Last("update") EXCEPT
                          !.dt = delta_time, !.n = r.n,
                          !.result = [own |-> Own, objects |-> objects]]
           /\ UNCHANGED <<engine, badguy_system, object_manager, layer_matrix, next_id, paused,
                          removed, added, ops>>

OwnNext ==
    \/ OwnAddObject
    \/ OwnRemoveObject
    \/ OwnAddBody
    \/ OwnRemoveBody
    \/ OwnUpdate

OwnSpec == WorldInit /\ [][OwnNext]_vars

\* C33: the id add_body returns is the id of the collision object it
\* registers for the body, also when collision objects have been added or
\* removed through collision_system_mut().  So remove_body removes the body's
\* own collision object and no other, and a step rewrites the rects of the
\* bodies' own collision objects and of no other object.
C33_BodyIdIsObjectId ==
    /\ \A b \in DOMAIN Own : Own[b] = b
    /\ last.op = "remove_body" =>
           DOMAIN last.result.objects \ DOMAIN objects
               = {Own[last.id]} \cap DOMAIN last.result.objects
    /\ last.op = "update" =>
           /\ \A o \in DOMAIN objects \ Owned : objects[o] = last.result.objects[o]
           /\ \A b \in DOMAIN bodies :
                  (last.n > 0 /\ Own[b] \in DOMAIN objects)
                  => objects[Own[b]].rect = get_rect(bodies[b])

\* a body added after a direct add_object: its collision object has
\* another id than the body
C33_Desync ==
    /\ last.op = "add_body"
    /\ Own[last.id] # last.id

\* remove_body took the directly registered Platform out of the collision
\* system and left the body's own collision object in it
C33_RemovesOther ==
    /\ last.op = "remove_body"
    /\ Own[last.id] \in DOMAIN objects
    /\ \E o \in DOMAIN last.result.objects \ DOMAIN objects :
           last.result.objects[o].collision_type = "Platform"

\* a step moved the directly registered Platform onto a body's rect
C33_ResyncsOther ==
    /\ last.op = "update"
    /\ \E o \in DOMAIN objects \ Owned :
           /\ objects[o].collision_type = "Platform"
           /\ objects[o].rect # last.result.objects[o].rect

\* without direct writes the ids agree: what holds of the code
C33_AgreeWithoutDirect ==
    cs_next_id = next_id => \A b \in DOMAIN Own : Own[b] = b

----------------------------------------------------------------------------
(* Bodies moved by a step into one or more Static bodies *)

MaxSolidBodies == 3     \* add_body calls per behaviour of this specification

\* a pillar that stands in the floor and reaches below it
Pillar == PhysicsBody_new(0, Vec(Fx(56), Fx(0)), Vec(Fx(16), Fx(200)), "Static")

\* bodies on the Player layer, which interacts with the layer of the Static
\* bodies: over the floor, in the floor from below, clear of everything
SolidInputs ==
    {Floor, Pillar}
    \cup {[PhysicsBody_new(0, p, BodySize, t) EXCEPT !.collision_layer = "Player"] :
              p \in {Vec(Fx(48), Fx(40)), Vec(Fx(90), Fx(90)), Vec(Fx(200), Fx(0))},
              t \in {"Kinematic", "Dynamic"}}

SolidAddBody ==
    \E body \in SolidInputs :
        /\ next_id <= MaxSolidBodies
        /\ SetW(world_add_body(W, next_id, body))
        /\ next_id' = next_id + 1
        /\ added' = Put(added, next_id, [body EXCEPT !.id = next_id])
        /\ last' = [Last("add_body") EXCEPT !.id = next_id]
        /\ UNCHANGED <<engine, badguy_system, object_manager, layer_matrix, accumulator,
                       paused, removed, steps, fed, ops>>

SolidUpdate == Update(WorldDts, MaxSteps)

SolidNext ==
    \/ SolidAddBody
    \/ SolidUpdate

SolidSpec == WorldInit /\ [][SolidNext]_vars

\* the Static bodies whose Solid collision object is on a layer that
\* interacts with the layer of body id
StaticSolids(id) ==
    {s \in DOMAIN bodies \cap DOMAIN objects :
        /\ bodies[s].body_type = "Static"
        /\ objects[s].collision_type = "Solid"
        /\ layers_interact(bodies[id].collision_layer, objects[s].layer)}

\* C34: after a step, the rect of an active non-Static body intersects the
\* rect of no Static body's Solid collision object on an interacting layer,
\* also when the moved rect overlapped two or more such objects.
C34_ClearOfStatics ==
    (last.op = "update" /\ last.n >= 1) =>
        \A id \in DOMAIN bodies :
            (bodies[id].active /\ bodies[id].body_type # "Static") =>
                \A s \in StaticSolids(id) :
                    ~intersects(get_rect(bodies[id]), objects[s].rect)

\* the same for the bodies whose moved rect overlapped at most one object
\* other than their own
C34_ClearOfOneStatic ==
    (last.op = "update" /\ last.n = 1) =>
        \A id \in Moved :
            Cardinality({k \in DOMAIN last.trace[id].hits : Processed(id, k)}) <= 1 =>
                \A s \in StaticSolids(id) :
                    ~intersects(get_rect(bodies[id]), objects[s].rect)

\* a body whose moved rect overlapped two Static bodies is left inside one
C34_Case ==
    /\ last.op = "update"
    /\ \E id \in Moved :
           /\ Cardinality({k \in DOMAIN last.trace[id].hits :
                               /\ Processed(id, k)
                               /\ last.trace[id].hits[k].object.id \in StaticSolids(id)}) = 2
           /\ \E s \in StaticSolids(id) :
                  intersects(get_rect(bodies[id]), objects[s].rect)

----------------------------------------------------------------------------
(* The input system and the jump: input updates that press Jump together
   with a direction, between physics steps *)

JumpInputs ==
    {NoInput,
     [pressed |-> {"Jump"}, just_pressed |-> {"Jump"}],
     [pressed |-> {"Jump", "MoveRight"}, just_pressed |-> {"Jump"}],
     [pressed |-> {"MoveRight"}, just_pressed |-> {}]}

JumpDts == {Sec \div 2}

JumpInputUpdate ==
    \E input \in JumpInputs, delta_time \in JumpDts :
        LET r == PlayerInputSystem_update(OM, W, player_id, input, delta_time)
        IN /\ HasPlayer
           /\ ops < MaxPlayerOps
           /\ ops' = ops + 1
           /\ object_manager' = r.om
           /\ SetW(r.w)
           /\ last' = [Last("player_update") EXCEPT !.a = input, !.dt = delta_time,
                                                     !.result = Before]
           /\ UNCHANGED <<engine, badguy_system, layer_matrix, next_id, accumulator, paused,
                          removed, added, steps, fed>>

JumpNext ==
    \/ PlayerCreate
    \/ PlayerAddPlatform
    \/ WorldUpdate
    \/ JumpInputUpdate

JumpSpec == WorldInit /\ [][JumpNext]_vars

\* C35: an input update sets the body's vertical velocity to jump_velocity
\* only if Jump was newly pressed in it while the controller had on_ground
\* and can_jump set; an update without a new Jump press leaves the body's
\* vertical velocity as it was.
C35_JumpOnlyOnPress ==
    last.op = "player_update" =>
        /\ (/\ PlayerBody.velocity.y = Controller.jump_velocity
            /\ last.result.body.velocity.y # Controller.jump_velocity)
           => (/\ "Jump" \in last.a.just_pressed
               /\ last.result.controller.on_ground
               /\ last.result.controller.can_jump)
        /\ "Jump" \notin last.a.just_pressed
           => PlayerBody.velocity.y = last.result.body.velocity.y

\* an update without any input gave the body the jump velocity
C35_Case ==
    /\ last.op = "player_update"
    /\ last.a = NoInput
    /\ PlayerBody.velocity.y = Controller.jump_velocity
    /\ last.result.body.velocity.y = 0

\* what the code does: the jump velocity is set exactly in the updates the
\* controller enters in state Jumping with can_jump set, and that do not
\* call jump() with effect
C35_JumpWhenStateJumping ==
    (last.op = "player_update" /\ is_alive(last.result.controller)) =>
        (PlayerBody.velocity.y # last.result.body.velocity.y
         => /\ last.result.controller.state = "Jumping"
            /\ last.result.controller.can_jump
            /\ PlayerBody.velocity.y = Controller.jump_velocity)

----------------------------------------------------------------------------
(* The frame loop of Engine::run: handle_events, update, render.  In this
   specification last.result is the history of the frames: [frame |-> the
   number of the current frame, delivered |-> the pairs <<frame, action>>
   for which a KeyDown of a key of the action reached the input manager in
   the frame's handle_events, reported |-> the pairs <<frame, action>> for
   which the game state's update of the frame found is_action_just_pressed,
   held |-> the same for is_action_pressed, updated |-> the frames whose
   update has run]. *)

MaxFrames == 2      \* frames per behaviour
MaxEvents == 2      \* events polled in one handle_events

Frames ==
    IF last.result = <<>>
    THEN [frame |-> 0, delivered |-> {}, reported |-> {}, held |-> {}, updated |-> {}]
    ELSE last.result

Event(type, keycode, repeat) == [type |-> type, keycode |-> keycode, repeat |-> repeat]

\* what the event pump hands out: Space pressed, repeated by the keyboard,
\* released; Right pressed; Escape pressed; the window closed
\* (the state changes that handle_events asks of the state manager touch
\* neither the input manager nor running, and are left out)
EngineEvents ==
    {Event("KeyDown", "Space", FALSE), Event("KeyDown", "Space", TRUE),
     Event("KeyUp", "Space", FALSE), Event("KeyDown", "Right", FALSE),
     Event("KeyDown", "Escape", FALSE), Event("Quit", "", FALSE)}

EventQueues == UNION {[1..n -> EngineEvents] : n \in 0..MaxEvents}

RECURSIVE handle_events(_, _, _)
\* the loop over event_pump.poll_iter(), from event i on
handle_events(e, events, i) ==
    IF i > Len(events) THEN e
    ELSE handle_events(
             [e EXCEPT !.input_manager = process_event(@, events[i]),
                       !.running = IF \/ events[i].type = "Quit"
                                      \/ /\ events[i].type = "KeyDown"
                                         /\ events[i].keycode = "Escape"
                                   THEN FALSE ELSE @],
             events, i + 1)

\* the actions that got a new key press from the events
Delivered(events) ==
    {action \in DOMAIN bindings :
        \E i \in DOMAIN events :
            /\ events[i].type = "KeyDown" /\ ~events[i].repeat
            /\ events[i].keycode \in bindings[action]}

EngineRun ==
    /\ engine.pc = "new"
    /\ engine' = [engine EXCEPT !.running = TRUE, !.pc = "handle_events"]
    /\ last' = [Last("run") EXCEPT !.result = [Frames EXCEPT !.frame = 1]]
    /\ UNCHANGED <<badguy_system, object_manager, objects, cells, cs_next_id,
                   layer_matrix, bodies, next_id, accumulator, paused, removed,
                   added, steps, fed, ops>>

EngineHandleEvents ==
    \E events \in EventQueues :
        /\ engine.pc = "handle_events"
        /\ engine' = [handle_events(engine, events, 1) EXCEPT !.pc = "update"]
        /\ last' = [Last("handle_events") EXCEPT
                       !.result = [Frames EXCEPT
                           !.delivered = @ \cup {<<Frames.frame, action>> :
                                                     action \in Delivered(events)}]]
        /\ UNCHANGED <<badguy_system, object_manager, objects, cells, cs_next_id,
                       layer_matrix, bodies, next_id, accumulator, paused, removed,
                       added, steps, fed, ops>>

\* Engine::update: input_manager.update(), then the current state's
\* update_with_input(delta_time, &input_manager)
EngineUpdate ==
    LET input == input_manager_update(engine.input_manager)
    IN /\ engine.pc = "update"
       /\ engine' = [engine EXCEPT !.input_manager = input, !.pc = "render"]
       /\ last' = [Last("update") EXCEPT
                      !.result = [Frames EXCEPT
                          !.reported = @ \cup {<<Frames.frame, action>> :
                                                 action \in {a \in DOMAIN bindings :
                                                     is_action_just_pressed(input, a)}},
                          !.held = @ \cup {<<Frames.frame, action>> :
                                             action \in {a \in DOMAIN bindings :
                                                 is_action_pressed(input, a)}},
                          !.updated = @ \cup {Frames.frame}]]
       /\ UNCHANGED <<badguy_system, object_manager, objects, cells, cs_next_id,
                      layer_matrix, bodies, next_id, accumulator, paused, removed,
                      added, steps, fed, ops>>

\* render, the frame rate limit, and the test of the while loop
EngineRender ==
    /\ engine.pc = "render"
    /\ engine.running => Frames.frame < MaxFrames
    /\ engine' = [engine EXCEPT
                     !.pc = IF engine.running THEN "handle_events" ELSE "stopped"]
    /\ last' = [Last("render") EXCEPT
                   !.result = IF engine.running
                              THEN [Frames EXCEPT !.frame = @ + 1] ELSE Frames]
    /\ UNCHANGED <<badguy_system, object_manager, objects, cells, cs_next_id,
                   layer_matrix, bodies, next_id, accumulator, paused, removed,
                   added, steps, fed, ops>>

EngineNext ==
    \/ EngineRun
    \/ EngineHandleEvents
    \/ EngineUpdate
    \/ EngineRender

EngineSpec == WorldInit /\ [][EngineNext]_vars

\* C36: a key press delivered to the input manager during a frame's event
\* handling is reported as just pressed to the game state's update of that
\* frame, and to the update of no later frame: an action is reported in a
\* frame only if a press of it was delivered in that frame.
C36_JustPressedSameFrame ==
    /\ \A d \in Frames.delivered : d[1] \in Frames.updated => d \in Frames.reported
    /\ Frames.reported \subseteq Frames.delivered

\* the update of a frame has run after Jump was pressed in the frame
C36_Case ==
    /\ last.op = "update"
    /\ <<Frames.frame, "Jump">> \in Frames.delivered
    /\ <<Frames.frame, "Jump">> \in Frames.held

\* what the code does: input_manager.update() clears the just-pressed keys
\* before the state's update reads them, so no update is ever told of a new
\* press, while a key that is down is reported as held
C36_NeverReported ==
    /\ Frames.reported = {}
    /\ engine.pc \in {"render", "stopped"} => engine.input_manager.just_pressed_keys = {}
    /\ last.op = "update" =>
           \A a \in DOMAIN bindings :
               (<<Frames.frame, a>> \in Frames.held)
               <=> (bindings[a] \cap engine.input_manager.pressed_keys # {})

----------------------------------------------------------------------------
(* The badguy system when the player goes away: the chase specification
   with GameObjectManager::remove_object on the player's object. *)

\* GameObjectManager::remove_object
remove_object(om, id) == [om EXCEPT !.objects = Drop(@, id)]

LostRemoveTux ==
    \E id \in TuxIds :
        /\ object_manager' = remove_object(OM, id)
        /\ last' = [Last("remove_object") EXCEPT !.id = id]
        /\ UNCHANGED <<engine, badguy_system, objects, cells, cs_next_id, layer_matrix,
                       bodies, next_id, accumulator, paused, removed, added, steps, fed,
                       ops>>

LostNext ==
    \/ BadguyCreate
    \/ ChaseCreateTux
    \/ BadguySetPlayerId
    \/ ChaseMoveTux
    \/ LostRemoveTux
    \/ ChaseUpdate

LostSpec == WorldInit /\ [][LostNext]_vars

\* the Chasing badguys whose AI the most recent update ran without a player
\* position
ChasingNobody ==
    IF last.op = "badguy_update" /\ ~PlayerPresent
    THEN {b \in Updated : AIOf(last.result.om, b).state = "Chasing"}
    ELSE {}

\* C38: a Chasing badguy whose player is no longer known to the system (no
\* player position) is Walking after the next AI update.
C38_LostPlayerWalks ==
    \A b \in ChasingNobody : AIOf(object_manager, b).state = "Walking"

\* an update has run a Chasing badguy after its player's object was removed
C38_Case ==
    /\ ChasingNobody # {}
    /\ badguy_system.player_id # <<>>
    /\ TuxIds = {}

\* what the code does: without a player position the Chasing arm does
\* nothing, so the badguy keeps chasing in the direction it had, and only its
\* timer runs
C38_LostPlayerKeepsChasing ==
    \A b \in ChasingNobody :
        LET pre == AIOf(last.result.om, b)
        IN /\ AIOf(object_manager, b) =
                  [pre EXCEPT !.state_timer = RoundF32(pre.state_timer + last.dt)]
           /\ BodyOf(object_manager, bodies, b).velocity.x = pre.direction * pre.move_speed

----------------------------------------------------------------------------
(* A patrolling badguy.  AI updates alternate with the movement of the
   bodies: between two updates the badguy's body, unobstructed, moves by its
   horizontal velocity times the delta time of the update, and
   sync_from_physics copies the body positions to the Transforms.  The
   player is moved through its body.  A state_timer above MaxTimerSecs
   seconds is recorded as MaxTimerSecs seconds: the code compares the timer
   with 0.5, 1.0 and 2.0 s only, so every larger value behaves alike, and
   the timer of a badguy that keeps Walking recurs.  last.result holds the
   state before the most recent update, as a one-element sequence. *)

PatrolDts == {Sec}

\* 140 to the right of BadguyStart, inside detection_range, and far away
PatrolTuxPositions == {Vec(Fx(440), Fx(200)), Vec(Fx(900), Fx(200))}

\* PhysicsSyncSystem::sync_from_physics
sync_from_physics(om, w) ==
    [om EXCEPT !.objects =
        [id \in DOMAIN om.objects |->
            LET object == om.objects[id]
            IN IF ~object.active \/ ~has_component(object, "PhysicsComponent")
               THEN object
               ELSE LET body_id == get_component(object, "PhysicsComponent").body_id
                    IN IF has_component(object, "Transform") /\ body_id \in DOMAIN w.bodies
                       THEN [object EXCEPT !.components["Transform"].position =
                                               w.bodies[body_id].position]
                       ELSE object]]

\* the state_timers as they are recorded
timers_capped(om) ==
    [om EXCEPT !.objects =
        [id \in DOMAIN om.objects |->
            IF has_component(om.objects[id], "BadguyAI")
            THEN [om.objects[id] EXCEPT !.components["BadguyAI"].state_timer =
                                            Min(@, MaxTimerSecs * Sec)]
            ELSE om.objects[id]]]

PatrolCreate == last.op # "badguy_update" /\ BadguyCreate

PatrolCreateTux == last.op # "badguy_update" /\ CreateTux(PatrolTuxPositions)

PatrolSetPlayerId == last.op # "badguy_update" /\ BadguySetPlayerId

\* set_body_position on the player's body, then sync_from_physics
PatrolMoveTux ==
    \E id \in TuxIds, pos \in PatrolTuxPositions :
        LET w == world_set_body_position(
                     W, get_component(OM.objects[id], "PhysicsComponent").body_id, pos)
        IN /\ last.op # "badguy_update"
           /\ position(OM.objects[id]) # pos
           /\ SetW(w)
           /\ object_manager' = sync_from_physics(OM, w)
           /\ last' = [Last("set_body_position") EXCEPT !.id = id]
           /\ UNCHANGED <<engine, badguy_system, layer_matrix, next_id, accumulator,
                          paused, removed, added, steps, fed, ops>>

PatrolUpdate ==
    \E delta_time \in PatrolDts, badguy_ids \in Orders(BadguyObjIds) :
        LET r == BadguySystem_update(badguy_system, OM, W, delta_time, badguy_ids)
        IN /\ last.op # "badguy_update"
           /\ BadguyObjIds # {}
           /\ object_manager' = timers_capped(r.om)
           /\ SetW(r.w)
           /\ last' = [Last("badguy_update") EXCEPT !.dt = delta_time,
                                                     !.result = <<Snapshot>>]
           /\ UNCHANGED <<engine, badguy_system, layer_matrix, next_id, accumulator, paused,
                          removed, added, steps, fed, ops>>

RECURSIVE moved_bodies(_, _, _, _)
\* every badguy's body moved by velocity.x * delta_time, delta_time whole seconds
moved_bodies(w, om, ids, delta_time) ==
    IF ids = {} THEN w
    ELSE LET id == CHOOSE i \in ids : TRUE
             body == BodyOf(om, w.bodies, id)
         IN moved_bodies(
                world_set_body_position(w, body.id,
                    Vec(body.position.x + body.velocity.x * (delta_time \div Sec),
                        body.position.y)),
                om, ids \ {id}, delta_time)

\* what happens between two AI updates
PatrolMove ==
    LET w == moved_bodies(W, OM, BadguyObjIds, last.dt)
    IN /\ last.op = "badguy_update"
       /\ SetW(w)
       /\ object_manager' = sync_from_physics(OM, w)
       /\ last' = [Last("move") EXCEPT !.dt = last.dt]
       /\ UNCHANGED <<engine, badguy_system, layer_matrix, next_id, accumulator, paused,
                      removed, added, steps, fed, ops>>

PatrolNext ==
    \/ PatrolCreate
    \/ PatrolCreateTux
    \/ PatrolSetPlayerId
    \/ PatrolMoveTux
    \/ PatrolUpdate
    \/ PatrolMove

PatrolSpec == WorldInit /\ [][PatrolNext]_vars

\* The steps of PatrolUpdate and of PatrolMove, told by what they leave in
\* last: no other step of PatrolNext leaves these records, and each is
\* enabled exactly when the action is.
PatrolUpdateStep ==
    \E delta_time \in PatrolDts :
        /\ last.op # "badguy_update"
        /\ BadguyObjIds # {}
        /\ last' = [Last("badguy_update") EXCEPT !.dt = delta_time,
                                                  !.result = <<Snapshot>>]

PatrolMoveStep ==
    /\ last.op = "badguy_update"
    /\ last' = [Last("move") EXCEPT !.dt = last.dt]

\* the caller keeps updating the AI, and the bodies keep moving
PatrolFairSpec == PatrolSpec /\ WF_last(PatrolUpdateStep) /\ WF_last(PatrolMoveStep)

\* the square of the distance of badguy b from its recorded start position
FromStart2(b) ==
    length2(position(object_manager.objects[b]), AIOf(object_manager, b).start_position)

PlayerNear(b) ==
    LET player_position == player_position_of(badguy_system, object_manager)
        ai == AIOf(object_manager, b)
    IN closer(distance_to_player(position(object_manager.objects[b]), player_position),
              ai.detection_range)

\* a Walking badguy, its start recorded, no player within its detection range
Patrolling(b) ==
    /\ b \in BadguyObjIds
    /\ AIOf(object_manager, b).state = "Walking"
    /\ AIOf(object_manager, b).start_position # ZERO
    /\ ~PlayerNear(b)

WithinPatrol(b) ==
    FromStart2(b) <= AIOf(object_manager, b).patrol_distance
                     * AIOf(object_manager, b).patrol_distance

\* a patrolling badguy is farther than patrol_distance from its start
Astray == \E b \in BadguyObjIds : Patrolling(b) /\ ~WithinPatrol(b)

\* every badguy is within patrol_distance of its start, or not patrolling
Home == \A b \in BadguyObjIds : WithinPatrol(b) \/ ~Patrolling(b)

\* C37: a Walking badguy with no player inside its detection range that is
\* farther than patrol_distance from its recorded start position eventually
\* comes back within patrol_distance of it (or stops patrolling because a
\* player has come into range), given that between AI updates its body
\* moves by its horizontal velocity.
C37_ComesBack == Astray ~> Home

\* a patrolling badguy more than one step of its walk beyond patrol_distance
C37_Case ==
    \E b \in BadguyObjIds :
        /\ last.op = "badguy_update"
        /\ Patrolling(b)
        /\ AIOf(last.result[1].om, b).state = "Walking"
        /\ FromStart2(b) > (AIOf(object_manager, b).patrol_distance + Fx(50))
                           * (AIOf(object_manager, b).patrol_distance + Fx(50))

\* what the code does: beyond patrol_distance every update reverses the
\* direction, whichever side of the start the badguy is on and whichever way
\* it was heading
C37_TurnsEveryUpdate ==
    last.op = "badguy_update" =>
        \A b \in BadguyObjIds :
            LET pre == AIOf(last.result[1].om, b)
                transform == position(last.result[1].om.objects[b])
                start == IF pre.start_position = ZERO THEN transform
                         ELSE pre.start_position
            IN (pre.state = "Walking" /\ AIOf(object_manager, b).state = "Walking")
               => AIOf(object_manager, b).direction =
                      IF length2(transform, start) > pre.patrol_distance * pre.patrol_distance
                      THEN 0 - pre.direction ELSE pre.direction

----------------------------------------------------------------------------
(* The order in which step visits the bodies.  bodies.keys() yields the ids
   in the order of the HashMap, which the program does not control; here the
   update records in last.result what the bodies would be after the update
   for every order, next to the one it takes. *)

\* a floor; two Dynamic bodies that overlap each other and the floor, on
\* layers that interact (Player with World, Enemy with Player); a Kinematic
\* body that moves into them from the left
OrderInputs ==
    {Floor,
     [PhysicsBody_new(0, Vec(Fx(48), Fx(40)), BodySize, "Dynamic")
         EXCEPT !.collision_layer = "Player"],
     [PhysicsBody_new(0, Vec(Fx(60), Fx(30)), BodySize, "Dynamic")
         EXCEPT !.collision_layer = "Enemy"],
     [PhysicsBody_new(0, Vec(Fx(20), Fx(36)), BodySize, "Kinematic")
         EXCEPT !.collision_layer = "Player", !.velocity = Vec(Fx(120), 0)]}

OrderAddBody ==
    \E body \in OrderInputs :
        /\ next_id <= MaxSolidBodies
        /\ SetW(world_add_body(W, next_id, body))
        /\ next_id' = next_id + 1
        /\ added' = Put(added, next_id, [body EXCEPT !.id = next_id])
        /\ last' = [Last("add_body") EXCEPT !.id = next_id]
        /\ UNCHANGED <<engine, badguy_system, object_manager, layer_matrix, accumulator,
                       paused, removed, steps, fed, ops>>

\* update(FIXED_TIMESTEP): one step
OrderUpdate ==
    \E delta_time \in WorldDts, body_ids \in Orders(DOMAIN bodies) :
        LET r == world_update(W, accumulator, delta_time, body_ids)
        IN /\ steps + r.n <= MaxSteps
           /\ SetW(r.w)
           /\ accumulator' = r.accumulator
           /\ steps' = steps + r.n
           /\ fed' = fed + delta_time
           /\ last' = [Last("update") EXCEPT
                          !.a = body_ids, !.dt = delta_time, !.n = r.n,
                          !.trace = r.w.trace,
                          !.result =
                              {world_update(W, accumulator, delta_time, o).w.bodies :
                                  o \in Orders(DOMAIN bodies)}]
           /\ UNCHANGED <<engine, badguy_system, object_manager, layer_matrix, next_id,
                          paused, removed, added, ops>>

OrderNext ==
    \/ OrderAddBody
    \/ OrderUpdate

OrderSpec == WorldInit /\ [][OrderNext]_vars

\* the ids of the objects the body hit in the most recent step
HitIds(id) ==
    IF id \in DOMAIN last.trace
    THEN {last.trace[id].hits[i].object.id : i \in DOMAIN last.trace[id].hits} \ {id}
    ELSE {}

Movers == {id \in DOMAIN bodies : bodies[id].active /\ bodies[id].body_type # "Static"}

\* C39: the positions, velocities and on_ground flags (here: every field) of
\* all bodies after a step do not depend on the order in which the step
\* visits the bodies.
C39_OrderIndependent ==
    (last.op = "update" /\ last.n = 1) => last.result = {bodies}

\* a step of two moving bodies, visited in either order, in which one was
\* resolved against the collision object of the other
C39_Witness ==
    /\ last.op = "update"
    /\ last.n = 1
    /\ \E a, b \in Movers :
          /\ a # b
          /\ b \in HitIds(a)
          /\ bodies[a].position # last.trace[a].target
          /\ bodies[b].position # last.trace[b].from

\* the same with the body that was hit visited first
C39_WitnessHitFirst ==
    /\ C39_Witness
    /\ \E a, b \in Movers :
          /\ b \in HitIds(a)
          /\ bodies[b].position # last.trace[b].from
          /\ \E i, j \in DOMAIN last.a : i < j /\ last.a[i] = b /\ last.a[j] = a

----------------------------------------------------------------------------
(* The lives of a player: take_damage, add_coin and input updates, enough of
   them to use up the three lives. *)

MaxLifeOps == 8     \* take_damage, add_coin and update calls per behaviour

LifeInputs == {NoInput, [pressed |-> {"MoveRight"}, just_pressed |-> {}]}

\* long enough for the invulnerability to run out
LifeDts == {2 * Sec}

LifeInputUpdate ==
    \E input \in LifeInputs, delta_time \in LifeDts :
        LET r == PlayerInputSystem_update(OM, W, player_id, input, delta_time)
        IN /\ HasPlayer
           /\ ops < MaxLifeOps
           /\ ops' = ops + 1
           /\ object_manager' = r.om
           /\ SetW(r.w)
           /\ last' = [Last("player_update") EXCEPT !.a = input, !.dt = delta_time,
                                                     !.result = Before]
           /\ UNCHANGED <<engine, badguy_system, layer_matrix, next_id, accumulator, paused,
                          removed, added, steps, fed>>

LifeTakeDamage ==
    /\ HasPlayer
    /\ ops < MaxLifeOps
    /\ ops' = ops + 1
    /\ object_manager' = [OM EXCEPT !.objects[player_id].components["PlayerController"] =
                                        take_damage(@)]
    /\ last' = [Last("take_damage") EXCEPT !.result = Before]
    /\ UNCHANGED <<engine, badguy_system, objects, cells, cs_next_id, layer_matrix, bodies,
                   next_id, accumulator, paused, removed, added, steps, fed>>

LifeAddCoin ==
    /\ HasPlayer
    /\ ops < MaxLifeOps
    /\ ops' = ops + 1
    /\ object_manager' = [OM EXCEPT !.objects[player_id].components["PlayerController"] =
                                        add_coin(@)]
    /\ last' = [Last("add_coin") EXCEPT !.result = Before]
    /\ UNCHANGED <<engine, badguy_system, objects, cells, cs_next_id, layer_matrix, bodies,
                   next_id, accumulator, paused, removed, added, steps, fed>>

LifeNext ==
    \/ PlayerCreate
    \/ LifeInputUpdate
    \/ LifeTakeDamage
    \/ LifeAddCoin

LifeSpec == WorldInit /\ [][LifeNext]_vars

\* C40: a player controller's lives count never drops below 0 under any
\* sequence of take_damage calls, add_coin calls and input-system updates.
C40_LivesNeverNegative == HasPlayer => Controller.lives >= 0

\* take_damage on a Dead player whose invulnerability has run out
C40_Case ==
    /\ HasPlayer
    /\ last.op = "take_damage"
    /\ last.result.controller.state = "Dead"
    /\ last.result.controller.lives = 0
    /\ ~last.result.controller.invulnerable

\* what the code does: the invulnerability of a Dead player runs out like
\* any other, take_damage takes a life from every controller that is not
\* invulnerable, whatever its lives and state, and a controller with no
\* lives left is Dead
C40_DamageAlwaysCounts ==
    HasPlayer =>
        /\ (last.op = "take_damage" /\ ~last.result.controller.invulnerable)
           => Controller.lives = last.result.controller.lives - 1
        /\ (last.op = "player_update" /\ last.result.controller.invulnerable)
           => ~Controller.invulnerable
        /\ (last.op = "take_damage" /\ Controller.lives <= 0) => Controller.state = "Dead"

====
